---- MODULE Spec2Model ----
(***************************************************************************)
(* Verification model of the alpm library: the version comparator          *)
(* (src/version.rs), the desc codec (src/alpm_desc), and the local / sync  *)
(* database layer (src/db).                                                *)
(*                                                                         *)
(* Strings are sequences of one-character strings; a byte is compared by   *)
(* its ASCII code (ByteOf).                                                *)
(***************************************************************************)
EXTENDS Integers, Sequences, FiniteSets, TLC

(***************************************************************************)
(* Bounds of the model.                                                    *)
(***************************************************************************)
\* longest version string handed to Version::parse / version_cmp
MaxLen == 3

\* longest string handed to Version::parse alone
MaxParseLen == 5

\* most fields of a serialized record
MaxFields == 2

\* longest string value of a record field
MaxStrLen == 1

\* largest unsigned field value
MaxUnsigned == 10

\* largest magnitude of a signed field value
MaxSigned == 1

\* longest list value of a record field
MaxListLen == 2

\* most mtree entries of a package
MaxFiles == 2

\* most members of a sync database archive
MaxMembers == 2

\* most characters in the version file of the local database
MaxMarkerLen == 2

\* most servers of a sync database
MaxServers == 2

\* most chunks in the body of a response
MaxChunks == 2

\* most characters behind the leading '/' of the path of a url
MaxPathLen == 2

\* most records in a document handed to de::from_str
MaxEntries == 3

\* most tokens a scalar value block is made of
MaxTokens == 2

\* most package directories in the local database that package_latest is
\* called on
MaxInstalled == 3

\* most packages in the cache of the sync database whose packages are
\* iterated
MaxCached == 2

\* most calls of SyncDatabase::packages nested in each other
MaxDepth == 2

\* longest directory name handed to split_package_dirname
MaxDirLen == 7

\* most characters in three version strings taken together
MaxTripleLen == 4

\* most members of the archive of a sync database that is registered
MaxRegMembers == 1


\* the sizes in bytes recorded for a file
RecordedSizes == {100}

\* the sizes in bytes of the nodes of the filesystem
NodeSizes == {50, 100}

\* the characters string values of record fields are drawn from
CodecChars == {"a", "1"}

\* the characters version strings are drawn from: two digits, a letter,
\* and the two separators that also delimit epoch and release
VersionChars == {"0", "1", "a", "-", ":"}

\* Option<T>: None is the empty sequence, Some(x) the one-element sequence
None == <<>>

Some(x) == <<x>>

IsSome(o) == o # <<>>

Unwrap(o) == o[1]

(***************************************************************************)
(* Characters and byte strings                                             *)
(***************************************************************************)
ByteOf ==
    ("0" :> 48) @@ ("1" :> 49) @@ ("2" :> 50) @@ ("3" :> 51) @@ ("4" :> 52) @@ ("5" :> 53) @@
    ("6" :> 54) @@ ("7" :> 55) @@ ("8" :> 56) @@ ("9" :> 57) @@ ("A" :> 65) @@ ("B" :> 66) @@
    ("C" :> 67) @@ ("D" :> 68) @@ ("E" :> 69) @@ ("F" :> 70) @@ ("G" :> 71) @@ ("H" :> 72) @@
    ("I" :> 73) @@ ("J" :> 74) @@ ("K" :> 75) @@ ("L" :> 76) @@ ("M" :> 77) @@ ("N" :> 78) @@
    ("O" :> 79) @@ ("P" :> 80) @@ ("Q" :> 81) @@ ("R" :> 82) @@ ("S" :> 83) @@ ("T" :> 84) @@
    ("U" :> 85) @@ ("V" :> 86) @@ ("W" :> 87) @@ ("X" :> 88) @@ ("Y" :> 89) @@ ("Z" :> 90) @@
    ("a" :> 97) @@ ("b" :> 98) @@ ("c" :> 99) @@ ("d" :> 100) @@ ("e" :> 101) @@ ("f" :> 102) @@
    ("g" :> 103) @@ ("h" :> 104) @@ ("i" :> 105) @@ ("j" :> 106) @@ ("k" :> 107) @@ ("l" :> 108) @@
    ("m" :> 109) @@ ("n" :> 110) @@ ("o" :> 111) @@ ("p" :> 112) @@ ("q" :> 113) @@ ("r" :> 114) @@
    ("s" :> 115) @@ ("t" :> 116) @@ ("u" :> 117) @@ ("v" :> 118) @@ ("w" :> 119) @@ ("x" :> 120) @@
    ("y" :> 121) @@ ("z" :> 122) @@ (" " :> 32) @@ ("%" :> 37) @@ ("-" :> 45) @@ ("." :> 46) @@
    (":" :> 58) @@ ("+" :> 43) @@ ("\n" :> 10)

Digits == {"0", "1", "2", "3", "4", "5", "6", "7", "8", "9"}

LowerLetters == {"a", "b", "c", "d", "e", "f", "g", "h", "i", "j", "k", "l", "m",
                 "n", "o", "p", "q", "r", "s", "t", "u", "v", "w", "x", "y", "z"}

UpperLetters == {"A", "B", "C", "D", "E", "F", "G", "H", "I", "J", "K", "L", "M",
                 "N", "O", "P", "Q", "R", "S", "T", "U", "V", "W", "X", "Y", "Z"}

is_ascii_digit(ch) == ch \in Digits

is_ascii_alphabetic(ch) == ch \in LowerLetters \cup UpperLetters

is_ascii_alphanumeric(ch) == is_ascii_digit(ch) \/ is_ascii_alphabetic(ch)

\* all strings over chars of length at most n
StringsUpTo(chars, n) == UNION {[1..k -> chars] : k \in 0..n}

\* &s[from..] with a 0-based byte index
SliceFrom(s, from) == SubSeq(s, from + 1, Len(s))

\* &s[..to] with a 0-based exclusive end
SliceTo(s, to) == SubSeq(s, 1, to)

\* Ord for usize / u64
int_cmp(x, y) == IF x < y THEN "Less" ELSE IF x > y THEN "Greater" ELSE "Equal"

\* Ord for [u8]: lexicographic, a proper prefix is Less
RECURSIVE slice_cmp(_, _)
slice_cmp(x, y) ==
    IF x = <<>> /\ y = <<>> THEN "Equal"
    ELSE IF x = <<>> THEN "Less"
    ELSE IF y = <<>> THEN "Greater"
    ELSE IF ByteOf[Head(x)] < ByteOf[Head(y)] THEN "Less"
    ELSE IF ByteOf[Head(x)] > ByteOf[Head(y)] THEN "Greater"
    ELSE slice_cmp(Tail(x), Tail(y))

(***************************************************************************)
(* src/version.rs                                                          *)
(***************************************************************************)
DEFAULT_EPOCH == <<"0">>

\* Version::new
Version_new(epoch, version, release) ==
    [epoch |-> epoch, version |-> version, release |-> release]

\* the epoch search loop of Version::parse: the 0-based index of the ':'
\* that ends the epoch, or None
RECURSIVE epoch_search(_, _)
epoch_search(input, idx) ==
    IF idx >= Len(input) THEN None
    ELSE IF input[idx + 1] = ":" THEN Some(idx)
    ELSE IF is_ascii_digit(input[idx + 1]) THEN epoch_search(input, idx + 1)
    ELSE None

\* variant of rfind_dash that finds the first '-' (str::find)
rfind_dash_first(s) ==
    IF \E i \in 1..Len(s) : s[i] = "-"
    THEN Some((CHOOSE i \in 1..Len(s) : s[i] = "-" /\ \A j \in 1..(i - 1) : s[j] # "-") - 1)
    ELSE None

\* str::rfind('-'): the 0-based index of the last '-', or None
rfind_dash(s) ==
    IF \E i \in 1..Len(s) : s[i] = "-"
    THEN Some((CHOOSE i \in 1..Len(s) : s[i] = "-" /\ \A j \in (i + 1)..Len(s) : s[j] # "-") - 1)
    ELSE None

Version_parse(input) ==
    LET epoch_end == epoch_search(input, 0)
        input_minus_epoch == IF epoch_end = None THEN input
                             ELSE SliceFrom(input, Unwrap(epoch_end) + 1)
        release_separator_idx == rfind_dash(input_minus_epoch)
    IN  Version_new(
            IF epoch_end = None THEN DEFAULT_EPOCH ELSE SliceTo(input, Unwrap(epoch_end)),
            IF release_separator_idx = None THEN input_minus_epoch
            ELSE SliceTo(input_minus_epoch, Unwrap(release_separator_idx)),
            IF release_separator_idx = None THEN None
            ELSE Some(SliceFrom(input_minus_epoch, Unwrap(release_separator_idx) + 1)))

\* discard_zeros
RECURSIVE discard_zeros(_)
discard_zeros(input) ==
    IF input # <<>> /\ Head(input) = "0" THEN discard_zeros(Tail(input)) ELSE input

\* the continuation tests handed to get_block! by BlocksIter::next
BlockTest(test, ch) ==
    CASE test = "is_ascii_digit" -> is_ascii_digit(ch)
      [] test = "not_alphanumeric" -> ~is_ascii_alphanumeric(ch)

\* get_block!: the first byte is always taken, then every byte passing test
RECURSIVE get_block_end(_, _, _)
get_block_end(input, test, end_idx) ==
    IF end_idx < Len(input) /\ BlockTest(test, input[end_idx + 1])
    THEN get_block_end(input, test, end_idx + 1)
    ELSE end_idx

Block(kind, bytes, len) == [kind |-> kind, bytes |-> bytes, len |-> len]

\* BlocksIter::next: the next block and the remaining input, or None.
\* The alpha arm continues its block with u8::is_ascii_digit, as the source does.
BlocksIter_next(rest) ==
    IF rest = <<>> THEN None
    ELSE IF is_ascii_digit(rest[1]) THEN
        LET end == get_block_end(rest, "is_ascii_digit", 1)
        IN  Some([block |-> Block("Numeric", discard_zeros(SliceTo(rest, end)), 0),
                  rest |-> SliceFrom(rest, end)])
    ELSE IF is_ascii_alphabetic(rest[1]) THEN
        LET end == get_block_end(rest, "is_ascii_digit", 1)
        IN  Some([block |-> Block("Alpha", SliceTo(rest, end), 0),
                  rest |-> SliceFrom(rest, end)])
    ELSE
        LET end == get_block_end(rest, "not_alphanumeric", 1)
        IN  Some([block |-> Block("Separator", <<>>, end),
                  rest |-> SliceFrom(rest, end)])

\* the whole block sequence a BlocksIter yields
RECURSIVE Blocks(_)
Blocks(input) ==
    LET n == BlocksIter_next(input)
    IN  IF n = None THEN <<>> ELSE <<Unwrap(n).block>> \o Blocks(Unwrap(n).rest)

\* variant of version_cmp_loop in which a left-over alpha block of the left
\* input makes it the newer one
RECURSIVE version_cmp_loop_alpha_newer(_, _, _)
version_cmp_loop_alpha_newer(bl, br, i) ==
    IF i > Len(bl) /\ i > Len(br) THEN "Equal"
    ELSE IF i > Len(br) THEN
        \* Left(block)
        CASE bl[i].kind = "Numeric" -> "Greater"
          [] bl[i].kind = "Alpha" -> "Greater"
          [] bl[i].kind = "Separator" -> version_cmp_loop_alpha_newer(bl, br, i + 1)
    ELSE IF i > Len(bl) THEN
        \* Right(block)
        CASE br[i].kind = "Alpha" -> "Greater"
          [] br[i].kind = "Numeric" -> "Less"
          [] br[i].kind = "Separator" -> version_cmp_loop_alpha_newer(bl, br, i + 1)
    ELSE
        \* Both(left, right)
        LET l == bl[i]
            r == br[i]
        IN  CASE l.kind = "Separator" /\ r.kind \in {"Numeric", "Alpha"} -> "Greater"
              [] l.kind = "Numeric" /\ r.kind = "Alpha" -> "Greater"
              [] l.kind = "Numeric" /\ r.kind = "Separator" -> "Less"
              [] l.kind = "Alpha" /\ r.kind \in {"Separator", "Numeric"} -> "Less"
              [] l.kind = "Numeric" /\ r.kind = "Numeric" ->
                    IF int_cmp(Len(l.bytes), Len(r.bytes)) = "Equal"
                    THEN IF slice_cmp(l.bytes, r.bytes) = "Equal"
                         THEN version_cmp_loop_alpha_newer(bl, br, i + 1)
                         ELSE slice_cmp(l.bytes, r.bytes)
                    ELSE int_cmp(Len(l.bytes), Len(r.bytes))
              [] l.kind = "Alpha" /\ r.kind = "Alpha" ->
                    IF slice_cmp(l.bytes, r.bytes) = "Equal"
                    THEN version_cmp_loop_alpha_newer(bl, br, i + 1)
                    ELSE slice_cmp(l.bytes, r.bytes)
              [] l.kind = "Separator" /\ r.kind = "Separator" ->
                    \* blocks_iter.peek().is_none()
                    IF i + 1 > Len(bl) /\ i + 1 > Len(br) THEN "Equal"
                    ELSE IF int_cmp(l.len, r.len) = "Equal"
                         THEN version_cmp_loop_alpha_newer(bl, br, i + 1)
                         ELSE int_cmp(l.len, r.len)

\* variant of version_cmp_loop that compares separator lengths even on the
\* last block of both inputs
RECURSIVE version_cmp_loop_no_peek(_, _, _)
version_cmp_loop_no_peek(bl, br, i) ==
    IF i > Len(bl) /\ i > Len(br) THEN "Equal"
    ELSE IF i > Len(br) THEN
        \* Left(block)
        CASE bl[i].kind = "Numeric" -> "Greater"
          [] bl[i].kind = "Alpha" -> "Less"
          [] bl[i].kind = "Separator" -> version_cmp_loop_no_peek(bl, br, i + 1)
    ELSE IF i > Len(bl) THEN
        \* Right(block)
        CASE br[i].kind = "Alpha" -> "Greater"
          [] br[i].kind = "Numeric" -> "Less"
          [] br[i].kind = "Separator" -> version_cmp_loop_no_peek(bl, br, i + 1)
    ELSE
        \* Both(left, right)
        LET l == bl[i]
            r == br[i]
        IN  CASE l.kind = "Separator" /\ r.kind \in {"Numeric", "Alpha"} -> "Greater"
              [] l.kind = "Numeric" /\ r.kind = "Alpha" -> "Greater"
              [] l.kind = "Numeric" /\ r.kind = "Separator" -> "Less"
              [] l.kind = "Alpha" /\ r.kind \in {"Separator", "Numeric"} -> "Less"
              [] l.kind = "Numeric" /\ r.kind = "Numeric" ->
                    IF int_cmp(Len(l.bytes), Len(r.bytes)) = "Equal"
                    THEN IF slice_cmp(l.bytes, r.bytes) = "Equal"
                         THEN version_cmp_loop_no_peek(bl, br, i + 1)
                         ELSE slice_cmp(l.bytes, r.bytes)
                    ELSE int_cmp(Len(l.bytes), Len(r.bytes))
              [] l.kind = "Alpha" /\ r.kind = "Alpha" ->
                    IF slice_cmp(l.bytes, r.bytes) = "Equal"
                    THEN version_cmp_loop_no_peek(bl, br, i + 1)
                    ELSE slice_cmp(l.bytes, r.bytes)
              [] l.kind = "Separator" /\ r.kind = "Separator" ->
                    IF FALSE THEN "Equal"
                    ELSE IF int_cmp(l.len, r.len) = "Equal"
                         THEN version_cmp_loop_no_peek(bl, br, i + 1)
                         ELSE int_cmp(l.len, r.len)

\* one turn of the while-let loop of version_cmp over the zip_longest of the
\* two block sequences, at 1-based position i
RECURSIVE version_cmp_loop(_, _, _)
version_cmp_loop(bl, br, i) ==
    IF i > Len(bl) /\ i > Len(br) THEN "Equal"
    ELSE IF i > Len(br) THEN
        \* Left(block)
        CASE bl[i].kind = "Numeric" -> "Greater"
          [] bl[i].kind = "Alpha" -> "Less"
          [] bl[i].kind = "Separator" -> version_cmp_loop(bl, br, i + 1)
    ELSE IF i > Len(bl) THEN
        \* Right(block)
        CASE br[i].kind = "Alpha" -> "Greater"
          [] br[i].kind = "Numeric" -> "Less"
          [] br[i].kind = "Separator" -> version_cmp_loop(bl, br, i + 1)
    ELSE
        \* Both(left, right)
        LET l == bl[i]
            r == br[i]
        IN  CASE l.kind = "Separator" /\ r.kind \in {"Numeric", "Alpha"} -> "Greater"
              [] l.kind = "Numeric" /\ r.kind = "Alpha" -> "Greater"
              [] l.kind = "Numeric" /\ r.kind = "Separator" -> "Less"
              [] l.kind = "Alpha" /\ r.kind \in {"Separator", "Numeric"} -> "Less"
              [] l.kind = "Numeric" /\ r.kind = "Numeric" ->
                    IF int_cmp(Len(l.bytes), Len(r.bytes)) = "Equal"
                    THEN IF slice_cmp(l.bytes, r.bytes) = "Equal"
                         THEN version_cmp_loop(bl, br, i + 1)
                         ELSE slice_cmp(l.bytes, r.bytes)
                    ELSE int_cmp(Len(l.bytes), Len(r.bytes))
              [] l.kind = "Alpha" /\ r.kind = "Alpha" ->
                    IF slice_cmp(l.bytes, r.bytes) = "Equal"
                    THEN version_cmp_loop(bl, br, i + 1)
                    ELSE slice_cmp(l.bytes, r.bytes)
              [] l.kind = "Separator" /\ r.kind = "Separator" ->
                    \* blocks_iter.peek().is_none()
                    IF i + 1 > Len(bl) /\ i + 1 > Len(br) THEN "Equal"
                    ELSE IF int_cmp(l.len, r.len) = "Equal"
                         THEN version_cmp_loop(bl, br, i + 1)
                         ELSE int_cmp(l.len, r.len)

\* version_cmp with the two arms for a first pair of a numeric and an alpha
\* block exchanged
version_cmp_alpha_over_numeric(left, right) ==
    LET bl == Blocks(left)
        br == Blocks(right)
    IN  IF bl # <<>> /\ br # <<>> /\ bl[1].kind = "Numeric" /\ br[1].kind = "Alpha"
        THEN "Less"
        ELSE IF bl # <<>> /\ br # <<>> /\ bl[1].kind = "Alpha" /\ br[1].kind = "Numeric"
        THEN "Greater"
        ELSE version_cmp_loop(bl, br, 1)

version_cmp(left, right) == version_cmp_loop(Blocks(left), Blocks(right), 1)

\* variant of Version_cmp in which a release present on one side only makes
\* that side the newer one
Version_cmp_release_orders(self, other) ==
    IF version_cmp(self.epoch, other.epoch) # "Equal"
    THEN version_cmp(self.epoch, other.epoch)
    ELSE IF version_cmp(self.version, other.version) # "Equal"
    THEN version_cmp(self.version, other.version)
    ELSE IF IsSome(self.release) /\ IsSome(other.release)
    THEN version_cmp(Unwrap(self.release), Unwrap(other.release))
    ELSE IF IsSome(self.release) THEN "Greater"
    ELSE IF IsSome(other.release) THEN "Less"
    ELSE "Equal"

\* Ord::cmp for Version looking at the release of self only
Version_cmp_release_of_self(self, other) ==
    IF version_cmp(self.epoch, other.epoch) # "Equal"
    THEN version_cmp(self.epoch, other.epoch)
    ELSE IF version_cmp(self.version, other.version) # "Equal"
    THEN version_cmp(self.version, other.version)
    ELSE IF IsSome(self.release) /\ IsSome(other.release)
    THEN version_cmp(Unwrap(self.release), Unwrap(other.release))
    ELSE IF IsSome(self.release) THEN "Greater"
    ELSE "Equal"

\* Ord::cmp for Version
Version_cmp(self, other) ==
    IF version_cmp(self.epoch, other.epoch) # "Equal"
    THEN version_cmp(self.epoch, other.epoch)
    ELSE IF version_cmp(self.version, other.version) # "Equal"
    THEN version_cmp(self.version, other.version)
    ELSE IF IsSome(self.release) /\ IsSome(other.release)
    THEN version_cmp(Unwrap(self.release), Unwrap(other.release))
    ELSE "Equal"

\* PartialEq::eq for Version
Version_eq(self, other) == Version_cmp(self, other) = "Equal"

\* a variant of version_hash_loop that writes every separator block, the
\* last one too
RECURSIVE version_hash_loop_writes_last(_, _)
version_hash_loop_writes_last(blocks, i) ==
    IF i > Len(blocks) THEN <<>>
    ELSE LET b == blocks[i]
             w == CASE b.kind \in {"Alpha", "Numeric"} -> <<[call |-> "write", arg |-> b.bytes]>>
                    [] b.kind = "Separator" -> <<[call |-> "write_usize", arg |-> b.len]>>
         IN  w \o version_hash_loop_writes_last(blocks, i + 1)

\* version_hash: the calls made on the hasher, in order
RECURSIVE version_hash_loop(_, _)
version_hash_loop(blocks, i) ==
    IF i > Len(blocks) THEN <<>>
    ELSE LET b == blocks[i]
             w == CASE b.kind \in {"Alpha", "Numeric"} -> <<[call |-> "write", arg |-> b.bytes]>>
                    [] b.kind = "Separator" ->
                          \* blocks_iter.peek().is_some()
                          IF i + 1 <= Len(blocks)
                          THEN <<[call |-> "write_usize", arg |-> b.len]>>
                          ELSE <<>>
         IN  w \o version_hash_loop(blocks, i + 1)

version_hash(input) == version_hash_loop(Blocks(input), 1)

\* Hash::hash for Version
Version_hash(self) ==
    version_hash(self.epoch) \o version_hash(self.version)
        \o (IF IsSome(self.release) THEN version_hash(Unwrap(self.release)) ELSE <<>>)

(***************************************************************************)
(* src/alpm_desc: records                                                  *)
(*                                                                         *)
(* A record type is a sequence of field types, a record a sequence of      *)
(* fields [ty, val].  Field types: "str" (String), "u" (u16), "i" (i32),   *)
(* "opt" (Option<String>), "seq" (Vec<String>).                            *)
(***************************************************************************)
\* the field names of the record struct, in declaration order
FieldNames == <<<<"a", "g", "e">>, <<"f", "r">>, <<"i", "d">>>>

FieldTypes == {"str", "u", "i", "opt", "seq"}

\* char::to_uppercase / to_ascii_uppercase on the characters of a key
UpperOf ==
    ("a" :> "A") @@ ("b" :> "B") @@ ("c" :> "C") @@ ("d" :> "D") @@ ("e" :> "E") @@ ("f" :> "F") @@
    ("g" :> "G") @@ ("h" :> "H") @@ ("i" :> "I") @@ ("j" :> "J") @@ ("k" :> "K") @@ ("l" :> "L") @@
    ("m" :> "M") @@ ("n" :> "N") @@ ("o" :> "O") @@ ("p" :> "P") @@ ("q" :> "Q") @@ ("r" :> "R") @@
    ("s" :> "S") @@ ("t" :> "T") @@ ("u" :> "U") @@ ("v" :> "V") @@ ("w" :> "W") @@ ("x" :> "X") @@
    ("y" :> "Y") @@ ("z" :> "Z")

to_uppercase_char(ch) == IF ch \in LowerLetters THEN UpperOf[ch] ELSE ch

\* str::to_uppercase
to_uppercase(str) == [i \in 1..Len(str) |-> to_uppercase_char(str[i])]

\* str::eq_ignore_ascii_case
eq_ignore_ascii_case(x, y) == to_uppercase(x) = to_uppercase(y)

\* Display for an unsigned integer
RECURSIVE fmt_unsigned(_)
fmt_unsigned(n) ==
    LET digit == CHOOSE d \in Digits : ByteOf[d] - ByteOf["0"] = n % 10
    IN  IF n < 10 THEN <<digit>> ELSE fmt_unsigned(n \div 10) \o <<digit>>

\* Display for a signed integer
fmt_signed(n) == IF n < 0 THEN <<"-">> \o fmt_unsigned(0 - n) ELSE fmt_unsigned(n)

(***************************************************************************)
(* src/alpm_desc/ser.rs                                                    *)
(***************************************************************************)
\* the `if !self.in_list { write "\n" }` tail of the scalar serializers
ser_end_scalar(in_list) == IF in_list THEN <<>> ELSE <<"\n">>

\* SerializerValueOrList::serialize_str
serialize_str(v, in_list) == v \o <<"\n">> \o ser_end_scalar(in_list)

\* SerializerValueOrList::serialize_u16
serialize_u16(v, in_list) == fmt_unsigned(v) \o <<"\n">> \o ser_end_scalar(in_list)

\* SerializerValueOrList::serialize_i32
serialize_i32(v, in_list) == fmt_signed(v) \o <<"\n">> \o ser_end_scalar(in_list)

\* SerializerValueOrList::serialize_none
serialize_none(in_list) == ser_end_scalar(in_list)

\* SerializeSeq::serialize_element for every element, then SerializeSeq::end
RECURSIVE serialize_elements(_)
serialize_elements(v) ==
    IF v = <<>> THEN <<"\n">>
    ELSE serialize_str(Head(v), TRUE) \o serialize_elements(Tail(v))

\* value.serialize(SerializerValueOrList { in_list: false })
serialize_value(ty, v) ==
    CASE ty = "str" -> serialize_str(v, FALSE)
      [] ty = "u" -> serialize_u16(v, FALSE)
      [] ty = "i" -> serialize_i32(v, FALSE)
      [] ty = "opt" -> IF IsSome(v) THEN serialize_str(Unwrap(v), FALSE)
                       ELSE serialize_none(FALSE)
      [] ty = "seq" -> serialize_elements(v)

\* SerializeStruct::serialize_field
serialize_field(key, ty, v) ==
    <<"%">> \o to_uppercase(key) \o <<"%", "\n">> \o serialize_value(ty, v)

\* ser::to_string of a record: serialize_struct, every field, end
RECURSIVE to_string_from(_, _)
to_string_from(rec, i) ==
    IF i > Len(rec) THEN <<>>
    ELSE serialize_field(FieldNames[i], rec[i].ty, rec[i].val) \o to_string_from(rec, i + 1)

to_string(rec) == to_string_from(rec, 1)

(***************************************************************************)
(* src/alpm_desc/de.rs                                                     *)
(***************************************************************************)
Ok(v) == [tag |-> "Ok", val |-> <<v>>, err |-> ""]

Err(kind) == [tag |-> "Err", val |-> <<>>, err |-> kind]

\* a panic: unimplemented!() or a failed expect
Panic == [tag |-> "Panic", val |-> <<>>, err |-> ""]

Whitespace == {" ", "\n"}

\* str::trim().len() == 0
trim_is_empty(input) == \A i \in 1..Len(input) : input[i] \in Whitespace

\* str::find of a character: the 0-based index of its first occurrence
find_char(input, ch) ==
    IF \E i \in 1..Len(input) : input[i] = ch
    THEN Some((CHOOSE i \in 1..Len(input) :
                  input[i] = ch /\ \A j \in 1..(i - 1) : input[j] # ch) - 1)
    ELSE None

\* str::find("\n\n"): the 0-based index of the first double line ending
find_double_newline(input) ==
    IF \E i \in 1..(Len(input) - 1) : input[i] = "\n" /\ input[i + 1] = "\n"
    THEN Some((CHOOSE i \in 1..(Len(input) - 1) :
                  /\ input[i] = "\n" /\ input[i + 1] = "\n"
                  /\ \A j \in 1..(i - 1) : ~(input[j] = "\n" /\ input[j + 1] = "\n")) - 1)
    ELSE None

\* the 0-based index of the first ASCII digit
find_digit(input) ==
    IF \E i \in 1..Len(input) : is_ascii_digit(input[i])
    THEN Some((CHOOSE i \in 1..Len(input) :
                  is_ascii_digit(input[i]) /\ \A j \in 1..(i - 1) : ~is_ascii_digit(input[j])) - 1)
    ELSE None

\* nom_parsers::parse_key: '%', a non-empty name up to the next '%', '%', the
\* line ending.  Some([name, rest]) or None on a parse error.
parse_key(input) ==
    IF input = <<>> \/ input[1] # "%" THEN None
    ELSE LET after == SliceFrom(input, 1)
             close == find_char(after, "%")
         IN  IF close = None \/ close = Some(0) THEN None
             ELSE LET name == SliceTo(after, Unwrap(close))
                      tail == SliceFrom(after, Unwrap(close) + 1)
                  IN  IF tail # <<>> /\ tail[1] = "\n"
                      THEN Some([name |-> name, rest |-> SliceFrom(tail, 1)])
                      ELSE None

\* Deserializer::parse_value with split_next_double_newline
parse_value(input) ==
    LET newline_pos == find_double_newline(input)
    IN  IF IsSome(newline_pos)
        THEN [value |-> SliceTo(input, Unwrap(newline_pos)),
              rest |-> SliceFrom(input, Unwrap(newline_pos) + 2)]
        ELSE [value |-> input, rest |-> <<>>]

\* nom_parsers::parse_unsigned is recognize!(take_till1!(is_digit)): it takes
\* the characters BEFORE the first digit.  It fails when the input starts
\* with a digit or holds none; what it recognises holds no digit, so the
\* following parse().expect(..) panics.
parse_unsigned(input) ==
    LET pos == find_digit(input)
    IN  IF pos = None \/ pos = Some(0) THEN Err("ExpectedUnsigned") ELSE Panic

\* nom_parsers::parse_signed: an optional sign, then take_till1!(is_digit)
parse_signed(input) ==
    LET unsigned == IF input # <<>> /\ input[1] \in {"+", "-"}
                    THEN SliceFrom(input, 1) ELSE input
        pos == find_digit(unsigned)
    IN  IF pos = None \/ pos = Some(0) THEN Err("ExpectedSigned") ELSE Panic

\* str::starts_with
starts_with(input, prefix) ==
    Len(input) >= Len(prefix) /\ SliceTo(input, Len(prefix)) = prefix

\* DeserializerInner::parse_bool: the result and the input left over
parse_bool(input) ==
    IF starts_with(input, <<"t", "r", "u", "e">>)
    THEN [result |-> Ok(TRUE), input |-> SliceFrom(input, 4)]
    ELSE IF starts_with(input, <<"f", "a", "l", "s", "e">>)
    THEN [result |-> Ok(FALSE), input |-> SliceFrom(input, 5)]
    ELSE [result |-> Err("ExpectedBool"), input |-> input]

\* DeserializerInner::deserialize_bool: visitor.visit_bool(self.parse_bool()?);
\* the deserializer is consumed and the input left over is dropped
deserialize_bool(input) == parse_bool(input).result

\* DeserializerInner::deserialize_str
deserialize_str(input) == Ok(input)

\* DeserializerInner::deserialize_option of an Option<String>
deserialize_option(input) ==
    IF input = <<>> THEN Ok(None) ELSE Ok(Some(input))

\* DeserializerInner::deserialize_seq
deserialize_seq(allow_list) ==
    IF allow_list THEN Panic ELSE Err("Unsupported")

\* seed.deserialize(DeserializerInner { input, allow_list: true, .. })
deserialize_value(ty, input) ==
    CASE ty = "str" -> deserialize_str(input)
      [] ty = "u" -> parse_unsigned(input)
      [] ty = "i" -> parse_signed(input)
      [] ty = "bool" -> deserialize_bool(input)
      [] ty = "opt" -> deserialize_option(input)
      [] ty \in {"seq", "seqd"} -> deserialize_seq(TRUE)

\* the position of the field AlpmMap::next_key_seed maps a key to, 0 if none
field_of_key(key, fields) ==
    IF \E i \in 1..Len(fields) : eq_ignore_ascii_case(fields[i], key)
    THEN CHOOSE i \in 1..Len(fields) :
            /\ eq_ignore_ascii_case(fields[i], key)
            /\ \A j \in 1..(i - 1) : ~eq_ignore_ascii_case(fields[j], key)
    ELSE 0

\* the end of the derived visit_map: a field never seen is None if it is an
\* Option, empty if it is a #[serde(default)] list ("seqd") and a
\* missing-field error otherwise
finish_record(types, got) ==
    IF \E i \in 1..Len(types) : got[i] = None /\ types[i] \notin {"opt", "seqd"}
    THEN Err("Custom")
    ELSE Ok([i \in 1..Len(types) |-> IF got[i] = None THEN None ELSE Unwrap(got[i])])

\* the derived Visitor::visit_map driven by AlpmMap: next_key_seed, then
\* next_value_seed, until the rest of the input is blank
RECURSIVE visit_map(_, _, _, _)
visit_map(input, fields, types, got) ==
    IF trim_is_empty(input) THEN finish_record(types, got)
    ELSE LET k == parse_key(input)
         IN  IF k = None THEN Err("ExpectedKey")
             ELSE LET idx == field_of_key(Unwrap(k).name, fields)
                      pv == parse_value(Unwrap(k).rest)
                  IN  IF idx = 0 THEN Err("Unsupported")
                      ELSE IF got[idx] # None THEN Err("Custom")
                      ELSE LET r == deserialize_value(types[idx], pv.value)
                           IN  IF r.tag # "Ok" THEN r
                               ELSE visit_map(pv.rest, fields, types,
                                              [got EXCEPT ![idx] = Some(Unwrap(r.val))])

\* de::from_str for the struct with the given field names and field types
from_str(input, fields, types) ==
    visit_map(input, fields, types, [i \in 1..Len(types) |-> None])

(***************************************************************************)
(* src/db/local/package.rs: LocalPackage::validate and size_on_disk        *)
(*                                                                         *)
(* A file record is an mtree entry [path, file_type, size]; file_type and  *)
(* size are optional.  A node of the filesystem is [kind, len] with kind   *)
(* "absent", "denied" (the stat fails with an error other than NotFound),  *)
(* "file", "dir", "symlink" or "other".                                    *)
(***************************************************************************)
FileType == {"File", "Directory", "SymbolicLink", "Other"}

\* impl From<fs::FileType> for FileType
FileType_from(kind) ==
    IF kind = "symlink" THEN "SymbolicLink"
    ELSE IF kind = "file" THEN "File"
    ELSE IF kind = "dir" THEN "Directory"
    ELSE "Other"

\* root_path.join(file.path())
root_join(path) == <<"/", path>>

\* ValidationError::FileNotFound
FileNotFound(filename) ==
    [error |-> "FileNotFound", filename |-> filename, expected |-> None, actual |-> None]

\* ValidationError::wrong_type
wrong_type(filename, expected, actual) ==
    [error |-> "WrongType", filename |-> <<filename>>,
     expected |-> Some(expected), actual |-> Some(actual)]

\* ValidationError::wrong_size
wrong_size(filename, expected, actual) ==
    [error |-> "WrongSize", filename |-> <<filename>>,
     expected |-> Some(expected), actual |-> Some(actual)]

\* Path::symlink_metadata: the node itself, links not followed
symlink_metadata(node) ==
    CASE node.kind = "absent" -> Err("NotFound")
      [] node.kind = "denied" -> Err("PermissionDenied")
      [] OTHER -> Ok([file_type |-> FileType_from(node.kind), len |-> node.len])

\* Path::metadata: a symbolic link is followed to its target
metadata(node, target) ==
    IF node.kind = "symlink" THEN symlink_metadata(target) ELSE symlink_metadata(node)

\* the match on (expected, actual) of validate
check_file_type(file, md) ==
    IF IsSome(file.file_type)
    THEN LET expected == Unwrap(file.file_type)
             actual == md.file_type
         IN  CASE expected = "File" /\ actual = "File" -> <<>>
               [] expected = "File" /\ actual # "File" ->
                    <<wrong_type(file.path, "File", actual)>>
               [] expected = "Directory" /\ actual = "Directory" -> <<>>
               [] expected = "Directory" /\ actual # "Directory" ->
                    <<wrong_type(file.path, "Directory", actual)>>
               [] expected = "SymbolicLink" /\ actual = "SymbolicLink" -> <<>>
               [] expected = "SymbolicLink" /\ actual # "SymbolicLink" ->
                    <<wrong_type(file.path, "SymbolicLink", actual)>>
               [] OTHER -> <<>>
    ELSE <<>>

\* the size check of validate
check_size(file, md) ==
    IF IsSome(file.size) /\ md.len # Unwrap(file.size)
    THEN <<wrong_size(file.path, Unwrap(file.size), md.len)>>
    ELSE <<>>

\* a variant of the loop of validate that returns at the first discrepancy
RECURSIVE validate_loop_stops(_, _, _, _)
validate_loop_stops(files, fs, i, errors) ==
    IF i > Len(files) \/ errors # <<>> THEN Ok(errors)
    ELSE LET file == files[i]
             md == symlink_metadata(fs[file.path])
         IN  IF md.tag = "Err" /\ md.err = "NotFound"
             THEN validate_loop_stops(files, fs, i + 1,
                                      Append(errors, FileNotFound(root_join(file.path))))
             ELSE IF md.tag = "Err" THEN md
             ELSE validate_loop_stops(files, fs, i + 1,
                     errors \o check_file_type(file, Unwrap(md.val))
                            \o check_size(file, Unwrap(md.val)))

\* the `for file in self.files()` loop of validate from the i-th file on
RECURSIVE validate_loop(_, _, _, _)
validate_loop(files, fs, i, errors) ==
    IF i > Len(files) THEN Ok(errors)
    ELSE LET file == files[i]
             md == symlink_metadata(fs[file.path])
         IN  IF md.tag = "Err" /\ md.err = "NotFound"
             THEN validate_loop(files, fs, i + 1,
                                Append(errors, FileNotFound(root_join(file.path))))
             ELSE IF md.tag = "Err" THEN md
             ELSE validate_loop(files, fs, i + 1,
                     errors \o check_file_type(file, Unwrap(md.val))
                            \o check_size(file, Unwrap(md.val)))

\* LocalPackage::validate: the handle is upgraded with expect(..)
validate(files, fs, alive) ==
    IF ~alive THEN Panic ELSE validate_loop(files, fs, 1, <<>>)

\* the `for file in self.files()` loop of size_on_disk from the i-th file on
RECURSIVE size_on_disk_loop(_, _, _, _, _)
size_on_disk_loop(files, fs, targets, i, acc) ==
    IF i > Len(files) THEN Ok(acc)
    ELSE LET md == metadata(fs[files[i].path], targets[i])
         IN  IF md.tag = "Err" /\ md.err = "NotFound"
             THEN size_on_disk_loop(files, fs, targets, i + 1, acc)
             ELSE IF md.tag = "Err" THEN md
             ELSE size_on_disk_loop(files, fs, targets, i + 1, acc + Unwrap(md.val).len)

\* LocalPackage::size_on_disk: the handle is upgraded with unwrap()
size_on_disk(files, fs, targets, alive) ==
    IF ~alive THEN Panic ELSE size_on_disk_loop(files, fs, targets, 1, 0)

(***************************************************************************)
(* src/db/local/mod.rs, src/db/local/package.rs, src/db/sync.rs,           *)
(* src/db/sync/package.rs: the package caches and loading a package        *)
(***************************************************************************)
\* ErrorKind::InvalidLocalPackage(name)
invalid_local_package(name) ==
    [tag |-> "Err", val |-> <<name>>, err |-> "InvalidLocalPackage"]

\* ErrorKind::InvalidSyncPackage(name)
invalid_sync_package(name) ==
    [tag |-> "Err", val |-> <<name>>, err |-> "InvalidSyncPackage"]

\* input[..end].rmatch_indices('-'): the 0-based indices of the hyphens,
\* last first
RECURSIVE rmatch_indices_dash(_, _)
rmatch_indices_dash(input, end) ==
    IF end = 0 THEN <<>>
    ELSE IF input[end] = "-" THEN <<end - 1>> \o rmatch_indices_dash(input, end - 1)
    ELSE rmatch_indices_dash(input, end - 1)

\* split_package_dirname splitting at the last hyphen
split_package_dirname_at_last(input) ==
    LET matches == rmatch_indices_dash(input, Len(input))
    IN  IF Len(matches) < 2 THEN None
        ELSE LET idx == matches[1]
             IN  Some([name |-> SliceTo(input, idx), version |-> SliceFrom(input, idx + 1)])

\* split_package_dirname: split at the second hyphen from the end
split_package_dirname(input) ==
    LET matches == rmatch_indices_dash(input, Len(input))
    IN  IF Len(matches) < 2 THEN None
        ELSE LET idx == matches[2]
             IN  Some([name |-> SliceTo(input, idx), version |-> SliceFrom(input, idx + 1)])

\* the fields of LocalPackageDescription that decide whether a desc file
\* parses: name, version, the list `validation` and the integer `size`
\* (the other fields are strings, options and defaulted lists)
LocalPackageDescription ==
    [fields |-> <<<<"n", "a", "m", "e">>, <<"v", "e", "r", "s", "i", "o", "n">>,
                  <<"v", "a", "l", "i", "d", "a", "t", "i", "o", "n">>,
                  <<"s", "i", "z", "e">>>>,
     types |-> <<"str", "str", "seq", "u">>]

\* the fields of SyncPackageDescription that decide whether a desc member
\* parses: name, version, the defaulted list `groups` and the integer `csize`
SyncPackageDescription ==
    [fields |-> <<<<"n", "a", "m", "e">>, <<"v", "e", "r", "s", "i", "o", "n">>,
                  <<"g", "r", "o", "u", "p", "s">>, <<"c", "s", "i", "z", "e">>>>,
     types |-> <<"str", "str", "seqd", "u">>]

\* struct Files { #[serde(default)] files: Vec<PathBuf> }
Files == [fields |-> <<<<"f", "i", "l", "e", "s">>>>, types |-> <<"seqd">>]

\* LocalPackage::from_local on the package directory dir = [desc, files,
\* mtree]; a member that cannot be read is None
from_local(path, dir, name, version) ==
    IF dir.desc = None THEN Err("Io")
    ELSE LET with_files(desc, files) ==
                 IF files.tag = "Panic" THEN Panic
                 ELSE IF files.tag = "Err" THEN invalid_local_package(name)
                 ELSE IF dir.mtree = None THEN Err("Io")
                 ELSE LET listed == Unwrap(files.val)[1]
                          installed(e) ==
                              listed # None /\ \E k \in 1..Len(listed) : listed[k] = e
                      IN  Ok([path |-> path,
                              desc |-> [name |-> desc[1], version |-> desc[2]],
                              files |-> SelectSeq(Unwrap(dir.mtree), installed)])
             check(desc) ==
                 IF desc[1] # name THEN invalid_local_package(name)
                 ELSE IF desc[2] # version THEN invalid_local_package(name)
                 ELSE IF dir.files = None THEN Err("Io")
                 ELSE with_files(desc, from_str(Unwrap(dir.files), Files.fields, Files.types))
             with(parsed) ==
                 IF parsed.tag = "Panic" THEN Panic
                 ELSE IF parsed.tag = "Err" THEN invalid_local_package(name)
                 ELSE check(Unwrap(parsed.val))
         IN  with(from_str(Unwrap(dir.desc), LocalPackageDescription.fields,
                           LocalPackageDescription.types))

\* SyncPackage::from_parts
from_parts(desc_raw, name, version) ==
    LET check(desc) ==
            IF desc[1] # name THEN invalid_sync_package(name)
            ELSE IF desc[2] # version THEN invalid_sync_package(name)
            ELSE Ok([desc |-> [name |-> desc[1], version |-> desc[2]]])
        with(parsed) ==
            IF parsed.tag = "Panic" THEN Panic
            ELSE IF parsed.tag = "Err" THEN invalid_sync_package(name)
            ELSE check(Unwrap(parsed.val))
    IN  with(from_str(desc_raw, SyncPackageDescription.fields,
                      SyncPackageDescription.types))

\* MaybePackage::new
MaybePackage_new(path, name, version) ==
    [loaded |-> FALSE, path |-> path, name |-> name, version |-> version, pkg |-> None]

\* MaybePackage::Loaded
MaybePackage_Loaded(entry, pkg) == [entry EXCEPT !.loaded = TRUE, !.pkg = Some(pkg)]

\* MaybePackage::load: [result, entry], entry being the cache entry afterwards
MaybePackage_load(entry, dir) ==
    IF entry.loaded THEN [result |-> Ok(Unwrap(entry.pkg)), entry |-> entry]
    ELSE LET with(pkg) ==
                 IF pkg.tag = "Ok"
                 THEN [result |-> pkg, entry |-> MaybePackage_Loaded(entry, Unwrap(pkg.val))]
                 ELSE [result |-> pkg, entry |-> entry]
         IN  with(from_local(entry.path, dir, entry.name, entry.version))

\* the read_dir loop of LocalDatabaseInner::populate_package_cache from the
\* i-th entry on: [result, package_cache, package_count]
RECURSIVE local_populate_loop(_, _, _, _)
local_populate_loop(entries, i, cache, count) ==
    IF i > Len(entries)
    THEN [result |-> Ok(<<>>), package_cache |-> cache, package_count |-> count]
    ELSE IF ~entries[i].is_dir THEN local_populate_loop(entries, i + 1, cache, count)
    ELSE LET file_name == entries[i].file_name
             split == split_package_dirname(file_name)
         IN  IF split = None
             THEN [result |-> invalid_local_package(file_name),
                   package_cache |-> cache, package_count |-> 0]
             ELSE LET key == <<Unwrap(split).name, Unwrap(split).version>>
                      new_pkg == MaybePackage_new(file_name, key[1], key[2])
                  IN  IF key \in DOMAIN cache
                      THEN [result |-> Panic, package_cache |-> cache, package_count |-> 0]
                      ELSE local_populate_loop(entries, i + 1,
                                               (key :> new_pkg) @@ cache, count + 1)

\* LocalDatabaseInner::package: [result, package_cache]
LocalDatabaseInner_package(cache, dirs, name, version) ==
    IF <<name, version>> \notin DOMAIN cache
    THEN [result |-> invalid_local_package(name), package_cache |-> cache]
    ELSE LET entry == cache[<<name, version>>]
             with(loaded) ==
                 [result |-> loaded.result,
                  package_cache |-> [cache EXCEPT ![<<name, version>>] = loaded.entry]]
         IN  with(MaybePackage_load(entry, dirs[entry.path]))

\* the loop of package_latest over the keys of the versions of one name, in
\* the order the HashMap yields them: `if v > version { version = v }` on
\* Strings
RECURSIVE package_latest_loop(_, _, _)
package_latest_loop(versions, i, version) ==
    IF i > Len(versions) THEN version
    ELSE package_latest_loop(versions, i + 1,
                             IF slice_cmp(versions[i], version) = "Greater"
                             THEN versions[i] ELSE version)

\* LocalDatabaseInner::package_latest, versions being the keys of the
\* versions of name as their iterator yields them (none if the name is not
\* cached): [result, package_cache, version], version the key it loads
LocalDatabaseInner_package_latest(cache, dirs, name, versions) ==
    IF versions = <<>>
    THEN [result |-> invalid_local_package(name), package_cache |-> cache,
          version |-> None]
    ELSE LET with(version, loaded) ==
                 [result |-> loaded.result, package_cache |-> loaded.package_cache,
                  version |-> Some(version)]
             latest(version) ==
                 with(version, LocalDatabaseInner_package(cache, dirs, name, version))
         IN  latest(package_latest_loop(versions, 2, versions[1]))

\* the entries loop of SyncDatabaseInner::populate_package_cache from the
\* i-th member on: [result, package_cache, package_count]
RECURSIVE sync_populate_loop(_, _, _, _)
sync_populate_loop(members, i, cache, count) ==
    IF i > Len(members)
    THEN [result |-> Ok(<<>>), package_cache |-> cache, package_count |-> count]
    ELSE IF members[i].file # "desc" THEN sync_populate_loop(members, i + 1, cache, count)
    ELSE IF members[i].dir = <<>>
    THEN [result |-> Panic, package_cache |-> cache, package_count |-> count]
    ELSE LET file_name == members[i].dir
             split == split_package_dirname(file_name)
         IN  IF split = None
             THEN [result |-> invalid_sync_package(file_name),
                   package_cache |-> cache, package_count |-> count]
             ELSE LET name == Unwrap(split).name
                      with(package) ==
                          IF package.tag # "Ok"
                          THEN [result |-> package, package_cache |-> cache,
                                package_count |-> count]
                          ELSE IF name \in DOMAIN cache
                          THEN [result |-> Panic,
                                package_cache |-> (name :> Unwrap(package.val)) @@ cache,
                                package_count |-> count]
                          ELSE sync_populate_loop(members, i + 1,
                                                  (name :> Unwrap(package.val)) @@ cache,
                                                  count + 1)
                  IN  with(from_parts(members[i].contents, name, Unwrap(split).version))

\* SyncDatabaseInner::populate_package_cache; an archive that cannot be
\* opened is None
sync_populate_package_cache(archive) ==
    IF archive = None
    THEN [result |-> Err("Io"), package_cache |-> <<>>, package_count |-> 0]
    ELSE sync_populate_loop(Unwrap(archive), 1, <<>>, 0)

(***************************************************************************)
(* db/local/mod.rs: the status of the local database                       *)
(*                                                                         *)
(* The database path is a record: kind is what the path names ("absent",   *)
(* "file", "dir", or "denied" when it cannot be examined), marker is the   *)
(* content of ALPM_DB_VERSION in it (None when there is no such file),     *)
(* readable says whether that file can be read, others whether the         *)
(* directory has further entries and listable whether it can be listed.    *)
(***************************************************************************)
LOCAL_DB_CURRENT_VERSION == 9

\* DbStatus::Missing
Missing == [status |-> "Missing", valid |-> FALSE]

\* DbStatus::Exists { valid }
Exists(valid) == [status |-> "Exists", valid |-> valid]

\* atoi's FromRadix10: the value of the leading ASCII digits of text from
\* position i on and how many of them there are
RECURSIVE from_radix_10(_, _, _)
from_radix_10(text, i, number) ==
    IF i <= Len(text) /\ is_ascii_digit(text[i])
    THEN from_radix_10(text, i + 1, number * 10 + (ByteOf[text[i]] - ByteOf["0"]))
    ELSE [number |-> number, used |-> i - 1]

\* atoi::atoi::<u64>: None when text does not start with a digit
atoi(text) ==
    LET with(parsed) == IF parsed.used = 0 THEN None ELSE Some(parsed.number)
    IN  with(from_radix_10(text, 1, 0))

\* fs::metadata(&self.path)
fs_metadata(node) ==
    CASE node.kind = "absent" -> Err("NotFound")
      [] node.kind = "denied" -> Err("PermissionDenied")
      [] OTHER -> Ok([is_dir |-> node.kind = "dir"])

\* fs::read(self.path.join(&LOCAL_DB_VERSION_FILE))
fs_read_version_file(node) ==
    IF node.marker = None THEN Err("NotFound")
    ELSE IF ~node.readable THEN Err("PermissionDenied")
    ELSE Ok(Unwrap(node.marker))

\* fs::read_dir(&self.path) and the first d.next(): Ok(TRUE) when there is
\* an entry, Ok(FALSE) when there is none
fs_read_dir_next(node) ==
    IF ~node.listable THEN Err("PermissionDenied")
    ELSE Ok(node.marker # None \/ node.others)

\* fs::File::create(path) followed by writeln!(file, "{}", version), path
\* being relative to the database path: <<>> is the database path itself,
\* which create_version_file hands over.  Creating a file where a directory
\* is fails and changes nothing.  [result, node]
File_create_writeln(node, path, version) ==
    IF path = <<>>
    THEN CASE node.kind = "dir" -> [result |-> Err("IsADirectory"), node |-> node]
           [] node.kind = "denied" -> [result |-> Err("PermissionDenied"), node |-> node]
           [] OTHER -> [result |-> Ok(<<>>), node |-> [node EXCEPT !.kind = "file"]]
    ELSE IF node.kind # "dir" THEN [result |-> Err("NotFound"), node |-> node]
    ELSE [result |-> Ok(<<>>),
          node |-> [node EXCEPT !.marker = Some(fmt_unsigned(version) \o <<"\n">>),
                                !.readable = TRUE]]

\* LocalDatabaseInner::create_version_file: fs::File::create(&self.path)
create_version_file(node) ==
    File_create_writeln(node, <<>>, LOCAL_DB_CURRENT_VERSION)

\* a variant of the version check that accepts any version but the current
version_is_current_not(version_raw) ==
    LET with(version) == version # None /\ Unwrap(version) # LOCAL_DB_CURRENT_VERSION
    IN  with(atoi(version_raw))

\* the Ok(version_raw) arm of LocalDatabaseInner::status
version_is_current(version_raw) ==
    LET with(version) == version # None /\ Unwrap(version) = LOCAL_DB_CURRENT_VERSION
    IN  with(atoi(version_raw))

\* LocalDatabaseInner::status: [result, node], node being the database path
\* afterwards
LocalDatabaseInner_status(node) ==
    LET bootstrap(created) ==
            [result |-> Ok(Exists(created.result.tag = "Ok")), node |-> created.node]
        listed(d) ==
            IF d.tag # "Ok" THEN [result |-> Ok(Exists(FALSE)), node |-> node]
            ELSE IF Unwrap(d.val) THEN [result |-> Ok(Exists(FALSE)), node |-> node]
            ELSE bootstrap(create_version_file(node))
        version(read) ==
            IF read.tag = "Ok"
            THEN [result |-> Ok(Exists(version_is_current(Unwrap(read.val)))), node |-> node]
            ELSE IF read.err = "NotFound" THEN listed(fs_read_dir_next(node))
            ELSE [result |-> Ok(Exists(FALSE)), node |-> node]
        with(md) ==
            IF md.tag # "Ok"
            THEN IF md.err = "NotFound" THEN [result |-> Ok(Missing), node |-> node]
                 ELSE [result |-> Err("UnexpectedIo"), node |-> node]
            ELSE IF ~Unwrap(md.val).is_dir THEN [result |-> Ok(Exists(FALSE)), node |-> node]
            ELSE version(fs_read_version_file(node))
    IN  with(fs_metadata(node))

(***************************************************************************)
(* db/sync.rs: SyncDatabaseInner::synchronize                              *)
(*                                                                         *)
(* The archive file is None when absent and Some(content) otherwise, its   *)
(* content being a sequence of chunks.  A process running synchronize is a *)
(* record: pc is its position in the function, force and modified are the  *)
(* locals of those names, servers what is left of self.servers.iter(),     *)
(* body what is left of the response to copy, offset the position of       *)
(* db_file, log the requests and responses so far and result what the      *)
(* function returned.                                                      *)
(***************************************************************************)
\* the bytes a hole in a file reads as
Hole == "0"

\* write(2) of one chunk through a file handle positioned at offset (counted
\* from 0); a position past the end of the file leaves a hole
write_at(content, offset, chunk) ==
    [k \in 1..(IF offset + 1 > Len(content) THEN offset + 1 ELSE Len(content)) |->
        IF k = offset + 1 THEN chunk
        ELSE IF k <= Len(content) THEN content[k]
        ELSE Hole]

\* SyncDatabaseInner::status
SyncDatabaseInner_status(file) == IF file = None THEN "Missing" ELSE "Valid"

\* a process that has not called synchronize
NotStarted ==
    [pc |-> "idle", force |-> FALSE, modified |-> FALSE, servers |-> <<>>, body |-> <<>>,
     offset |-> 0, log |-> <<>>, result |-> None]

\* synchronize up to the for loop: get_handle()?, self.status()?, modified
synchronize_begin(proc, alive, file, servers, force) ==
    IF ~alive THEN [proc EXCEPT !.pc = "returned", !.result = Some(Err("UseAfterDrop"))]
    ELSE [proc EXCEPT !.pc = "loop",
                      !.force = force \/ SyncDatabaseInner_status(file) # "Valid",
                      !.modified = file # None,
                      !.servers = servers]

\* the end of an iteration of the for loop after StatusCode::OK: the body
\* is written, db_file is dropped and the loop goes on to the next server
synchronize_written(proc) ==
    [proc EXCEPT !.pc = "loop", !.log = proc.log \o <<[event |-> "written"]>>]

\* one iteration of the for loop up to the match on response.status(), or
\* the Ok(()) behind the loop
synchronize_request(proc, response) ==
    IF proc.servers = <<>>
    THEN [proc EXCEPT !.pc = "returned", !.result = Some(Ok(<<>>))]
    ELSE LET request == [event |-> "request", server |-> Head(proc.servers),
                         if_modified_since |-> proc.modified /\ ~proc.force]
             answer == [event |-> response.code, body |-> response.body]
             next == [proc EXCEPT !.servers = Tail(proc.servers),
                                  !.log = proc.log \o <<request, answer>>]
         IN  CASE response.code = "SEND_ERROR" ->
                    [next EXCEPT !.pc = "returned",
                                 !.result = Some(Err("UnexpectedReqwest"))]
               [] response.code = "NOT_MODIFIED" ->
                    [next EXCEPT !.pc = "returned", !.result = Some(Ok(<<>>))]
               [] response.code = "OK" ->
                    [next EXCEPT !.pc = "open", !.body = response.body]
               [] OTHER ->
                    [next EXCEPT !.pc = "returned", !.result = Some(Ok(<<>>))]

(***************************************************************************)
(* db/sync.rs: SyncDatabase, the handle to Rc<RefCell<SyncDatabaseInner>>  *)
(*                                                                         *)
(* The borrow flag of the RefCell is an integer as in core::cell: 0 when   *)
(* unused, n > 0 for n shared borrows, -1 while mutably borrowed.  A       *)
(* borrow the flag does not allow panics (BorrowError, BorrowMutError).    *)
(***************************************************************************)
\* RefCell::try_borrow: the flag with one more shared borrow, if allowed
try_borrow(flag) == IF flag >= 0 THEN Some(flag + 1) ELSE None

\* RefCell::try_borrow_mut: the flag of a mutable borrow, if allowed
try_borrow_mut(flag) == IF flag = 0 THEN Some(0 - 1) ELSE None

\* SyncDatabase::servers: self.inner.borrow_mut().servers cloned
SyncDatabase_servers(flag, inner) ==
    IF try_borrow_mut(flag) = None THEN Panic ELSE Ok(inner.servers)

\* SyncDatabase::path: self.inner.borrow().path.clone()
SyncDatabase_path(flag, inner) ==
    IF try_borrow(flag) = None THEN Panic ELSE Ok(inner.path)

\* SyncDatabase::status: self.inner.borrow().status(), file being what the
\* path names on the disk
SyncDatabase_status(flag, file) ==
    IF try_borrow(flag) = None THEN Panic ELSE Ok(SyncDatabaseInner_status(file))

\* SyncDatabase::package
SyncDatabase_package(flag, inner, name, version) ==
    IF try_borrow(flag) = None THEN Panic
    ELSE IF name \notin DOMAIN inner.package_cache THEN invalid_local_package(name)
    ELSE IF version # inner.package_cache[name].version THEN invalid_local_package(name)
    ELSE Ok(inner.package_cache[name])

\* SyncDatabase::package_latest
SyncDatabase_package_latest(flag, inner, name) ==
    IF try_borrow(flag) = None THEN Panic
    ELSE IF name \notin DOMAIN inner.package_cache THEN invalid_local_package(name)
    ELSE Ok(inner.package_cache[name])

\* a read-only operation of SyncDatabase other than packages, called with
\* the arguments name and version while the disk holds file
SyncDatabase_read(op, flag, inner, file, name, version) ==
    CASE op = "servers" -> SyncDatabase_servers(flag, inner)
      [] op = "path" -> SyncDatabase_path(flag, inner)
      [] op = "status" -> SyncDatabase_status(flag, file)
      [] op = "package" -> SyncDatabase_package(flag, inner, name, version)
      [] op = "package_latest" -> SyncDatabase_package_latest(flag, inner, name)

(***************************************************************************)
(* db/sync.rs: the servers of a sync database                              *)
(*                                                                         *)
(* A Url is a record of its origin and its path, a sequence of characters; *)
(* NotAUrl is a string that does not parse as one.                         *)
(***************************************************************************)
NotAUrl == [origin |-> "", path |-> <<>>]

\* UrlOrStr::from(url).into_url() with its map_err
into_url(url) ==
    IF url = NotAUrl THEN Err("CannotAddServerToDatabase") ELSE Ok(url)

\* url.path().chars().next_back()
path_next_back(url) == IF url.path = <<>> THEN None ELSE Some(url.path[Len(url.path)])

\* a variant that stores the url as it was given
with_trailing_slash_kept(url) == url

\* the match in add_server: a '/' is pushed onto a path that does not end
\* in one
with_trailing_slash(url) ==
    IF path_next_back(url) = Some("/") THEN url
    ELSE [url EXCEPT !.path = url.path \o <<"/">>]

\* SyncDatabaseInner::add_server: [result, servers]
add_server(servers, url) ==
    LET with(parsed) ==
            IF parsed.tag # "Ok" THEN [result |-> parsed, servers |-> servers]
            ELSE [result |-> Ok(<<>>),
                  servers |-> servers \cup {with_trailing_slash(Unwrap(parsed.val))}]
    IN  with(into_url(url))

\* SyncDatabaseInner::remove_server: [result, servers]
remove_server(servers, url) ==
    LET with(parsed) ==
            IF parsed.tag # "Ok" THEN [result |-> parsed, servers |-> servers]
            ELSE [result |-> Ok(<<>>), servers |-> servers \ {Unwrap(parsed.val)}]
    IN  with(into_url(url))

\* SyncDatabaseInner::clear_servers
clear_servers(servers) == {}

(***************************************************************************)
(* State                                                                   *)
(***************************************************************************)
VARIABLES
    vpc,        \* version run: "input", "compared", "parsed", "ordered", "hashed"
    left,       \* first version string
    right,      \* second version string
    cmp_raw,    \* version_cmp(left, right)
    vleft,      \* Version::parse(left)
    vright,     \* Version::parse(right)
    ord,        \* vleft.cmp(vright)
    hleft,      \* hasher calls of vleft.hash
    hright,     \* hasher calls of vright.hash
    ppc,        \* parse run: "input", "parsed"
    pinput,     \* the string handed to Version::parse
    pversion,   \* Version::parse(pinput)
    cpc,        \* codec run: "input", "serialized", "deserialized"
    record,     \* the record handed to ser::to_string
    document,   \* the text ser::to_string returned
    decoded,    \* the result of de::from_str on document
    handle_alive,  \* the Alpm instance and its Handle still exist
    pkg_files,  \* LocalPackage.files: the mtree entries of the package
    disk,       \* the node under the root path for each entry's path
    call,       \* the last method called on the package
    outcome,    \* what that call returned
    db,         \* which database is exercised: "local" or "sync"
    local_fs,   \* the entries of the local database directory
    local_status,  \* "new", "populated", "failed" or "panicked"
    local_cache,   \* LocalDatabaseInner.package_cache
    local_count,   \* LocalDatabaseInner.package_count
    local_result,  \* the last result the local database returned
    archive,    \* the members of the sync database archive
    sync_status,   \* "new", "ready" or "panicked"
    sync_cache,    \* SyncDatabaseInner.package_cache
    sync_count,    \* SyncDatabaseInner.package_count
    sync_result,   \* what populate_package_cache returned
    dbpath,     \* what the path of the local database names on the disk
    status_result, \* what LocalDatabaseInner::status returned
    sync_alive, \* the Alpm instance of the sync database still exists
    servers,    \* self.servers in the order its iterator yields them
    dbfile,     \* the archive file of the sync database
    dblock,     \* the process holding the exclusive lock on the archive file
    procs,      \* the processes running synchronize
    db_servers, \* SyncDatabaseInner.servers
    server_call,  \* the last call that changed the servers
    read_doc,   \* the records of the document handed to de::from_str
    read_result,  \* what de::from_str returned
    scalar_input,  \* the value block of the one field of a document
    scalar_result, \* the field type asked for and what de::from_str returned
    latest_fs,     \* the package directories of a populated local database
    latest_cache,  \* its LocalDatabaseInner.package_cache
    latest_result, \* the last call of package_latest and what it returned
    cell_inner,    \* the SyncDatabaseInner behind a SyncDatabase
    cell_flag,     \* the borrow flag of its RefCell
    cell_stack,    \* the calls of packages() in progress, innermost last
    cell_result,   \* the last operation that ended and what it returned
    dirname_input, \* the directory name handed to split_package_dirname
    dirname_result,  \* what split_package_dirname returned
    triple,        \* three version strings
    triple_result, \* the comparisons made of them
    pair_servers,  \* servers of the sync database that a url is added to and removed from
    pair_call,     \* the url, the servers before add_server, and how far the two calls are
    reg_files,     \* what the path of each sync database names: None, or the archive's members
    reg_databases, \* Handle::sync_databases: the registered databases by name
    reg_call       \* the last call of Alpm::sync_database: its name, the registry before, its result

versionVars == <<vpc, left, right, cmp_raw, vleft, vright, ord, hleft, hright>>

parseVars == <<ppc, pinput, pversion>>

codecVars == <<cpc, record, document, decoded>>

pkgVars == <<handle_alive, pkg_files, disk, call, outcome>>

loadVars == <<db, local_fs, local_status, local_cache, local_count, local_result,
              archive, sync_status, sync_cache, sync_count, sync_result>>

coreVars == <<versionVars, parseVars, codecVars, pkgVars, loadVars>>

statusVars == <<dbpath, status_result>>

syncVars == <<sync_alive, servers, dbfile, dblock, procs>>

serversVars == <<db_servers, server_call>>

readVars == <<read_doc, read_result>>

scalarVars == <<scalar_input, scalar_result>>

latestVars == <<latest_fs, latest_cache, latest_result>>

cellVars == <<cell_inner, cell_flag, cell_stack, cell_result>>

dirnameVars == <<dirname_input, dirname_result>>

tripleVars == <<triple, triple_result>>

pairVars == <<pair_servers, pair_call>>

registerVars == <<reg_files, reg_databases, reg_call>>

apiVars == <<scalarVars, latestVars, cellVars, dirnameVars, tripleVars, pairVars, registerVars>>

serviceVars == <<statusVars, syncVars, serversVars, readVars, apiVars>>

statusFrame == <<coreVars, syncVars, serversVars, readVars, apiVars>>

syncFrame == <<coreVars, statusVars, serversVars, readVars, apiVars>>

serversFrame == <<coreVars, statusVars, syncVars, readVars, apiVars>>

readFrame == <<coreVars, statusVars, syncVars, serversVars, apiVars>>

baseVars == <<coreVars, statusVars, syncVars, serversVars, readVars>>

scalarFrame ==
    <<baseVars, latestVars, cellVars, dirnameVars, tripleVars,
      pairVars, registerVars>>

latestFrame ==
    <<baseVars, scalarVars, cellVars, dirnameVars, tripleVars,
      pairVars, registerVars>>

cellFrame ==
    <<baseVars, scalarVars, latestVars, dirnameVars, tripleVars,
      pairVars, registerVars>>

dirnameFrame ==
    <<baseVars, scalarVars, latestVars, cellVars, tripleVars,
      pairVars, registerVars>>

tripleFrame ==
    <<baseVars, scalarVars, latestVars, cellVars, dirnameVars,
      pairVars, registerVars>>

pairFrame ==
    <<baseVars, scalarVars, latestVars, cellVars, dirnameVars, tripleVars, registerVars>>

registerFrame ==
    <<baseVars, scalarVars, latestVars, cellVars, dirnameVars, tripleVars, pairVars>>

vars == <<coreVars, serviceVars>>

(***************************************************************************)
(* The version comparator applied to two version strings                   *)
(***************************************************************************)
VersionIdle ==
    /\ vpc = "idle"
    /\ left = <<>>
    /\ right = <<>>
    /\ cmp_raw = None
    /\ vleft = None
    /\ vright = None
    /\ ord = None
    /\ hleft = None
    /\ hright = None

ParseIdle ==
    /\ ppc = "idle"
    /\ pinput = <<>>
    /\ pversion = None

CodecIdle ==
    /\ cpc = "idle"
    /\ record = <<>>
    /\ document = None
    /\ decoded = None

PackageIdle ==
    /\ handle_alive = TRUE
    /\ pkg_files = <<>>
    /\ disk = <<>>
    /\ call = None
    /\ outcome = None

StatusIdle ==
    /\ dbpath = <<>>
    /\ status_result = None

SyncIdle ==
    /\ sync_alive = TRUE
    /\ servers = <<>>
    /\ dbfile = None
    /\ dblock = None
    /\ procs = <<>>

ServersIdle ==
    /\ db_servers = {}
    /\ server_call = None

ReadIdle ==
    /\ read_doc = <<>>
    /\ read_result = None

ScalarIdle ==
    /\ scalar_input = <<>>
    /\ scalar_result = None

LatestIdle ==
    /\ latest_fs = <<>>
    /\ latest_cache = <<>>
    /\ latest_result = None

CellIdle ==
    /\ cell_inner = <<>>
    /\ cell_flag = 0
    /\ cell_stack = <<>>
    /\ cell_result = None

DirnameIdle ==
    /\ dirname_input = <<>>
    /\ dirname_result = None

TripleIdle ==
    /\ triple = <<>>
    /\ triple_result = None

PairIdle ==
    /\ pair_servers = {}
    /\ pair_call = None

RegisterIdle ==
    /\ reg_files = <<>>
    /\ reg_databases = <<>>
    /\ reg_call = None

ApiIdle ==
    /\ ScalarIdle
    /\ LatestIdle
    /\ CellIdle
    /\ DirnameIdle
    /\ TripleIdle
    /\ PairIdle
    /\ RegisterIdle

ServiceIdle == StatusIdle /\ SyncIdle /\ ServersIdle /\ ReadIdle /\ ApiIdle

LoadIdle ==
    /\ db = "idle"
    /\ local_fs = <<>>
    /\ local_status = "idle"
    /\ local_cache = <<>>
    /\ local_count = 0
    /\ local_result = None
    /\ archive = None
    /\ sync_status = "idle"
    /\ sync_cache = <<>>
    /\ sync_count = 0
    /\ sync_result = None

BaseIdle ==
    /\ VersionIdle
    /\ ParseIdle
    /\ CodecIdle
    /\ PackageIdle
    /\ LoadIdle
    /\ StatusIdle
    /\ SyncIdle
    /\ ServersIdle
    /\ ReadIdle

VersionInit ==
    /\ vpc = "input"
    /\ left \in StringsUpTo(VersionChars, MaxLen)
    /\ right \in StringsUpTo(VersionChars, MaxLen)
    /\ cmp_raw = None
    /\ vleft = None
    /\ vright = None
    /\ ord = None
    /\ hleft = None
    /\ hright = None
    /\ ParseIdle
    /\ CodecIdle
    /\ PackageIdle
    /\ LoadIdle
    /\ ServiceIdle

\* version_cmp(left, right)
CompareRaw ==
    /\ vpc = "input"
    /\ cmp_raw' = Some(version_cmp(left, right))
    /\ vpc' = "compared"
    /\ UNCHANGED <<left, right, vleft, vright, ord, hleft, hright, parseVars, codecVars, pkgVars, loadVars, serviceVars>>

\* Version::parse on both strings
Parse ==
    /\ vpc = "compared"
    /\ vleft' = Some(Version_parse(left))
    /\ vright' = Some(Version_parse(right))
    /\ vpc' = "parsed"
    /\ UNCHANGED <<left, right, cmp_raw, ord, hleft, hright, parseVars, codecVars, pkgVars, loadVars, serviceVars>>

\* vleft.cmp(&vright)
Compare ==
    /\ vpc = "parsed"
    /\ ord' = Some(Version_cmp(Unwrap(vleft), Unwrap(vright)))
    /\ vpc' = "ordered"
    /\ UNCHANGED <<left, right, cmp_raw, vleft, vright, hleft, hright, parseVars, codecVars, pkgVars, loadVars, serviceVars>>

\* both versions fed to a hasher
Hash ==
    /\ vpc = "ordered"
    /\ hleft' = Some(Version_hash(Unwrap(vleft)))
    /\ hright' = Some(Version_hash(Unwrap(vright)))
    /\ vpc' = "hashed"
    /\ UNCHANGED <<left, right, cmp_raw, vleft, vright, ord, parseVars, codecVars, pkgVars, loadVars, serviceVars>>

VersionNext == CompareRaw \/ Parse \/ Compare \/ Hash

SpecVersion == VersionInit /\ [][VersionNext]_vars

(***************************************************************************)
(* Version::parse applied to one string                                    *)
(***************************************************************************)
ParseInit ==
    /\ ppc = "input"
    /\ pinput \in StringsUpTo(VersionChars, MaxParseLen)
    /\ pversion = None
    /\ VersionIdle
    /\ CodecIdle
    /\ PackageIdle
    /\ LoadIdle
    /\ ServiceIdle

\* Version::parse(pinput)
ParseOne ==
    /\ ppc = "input"
    /\ pversion' = Some(Version_parse(pinput))
    /\ ppc' = "parsed"
    /\ UNCHANGED <<pinput, versionVars, codecVars, pkgVars, loadVars, serviceVars>>

ParseNext == ParseOne

SpecParse == ParseInit /\ [][ParseNext]_vars

(***************************************************************************)
(* A record serialized by ser::to_string and read back by de::from_str     *)
(***************************************************************************)
\* strings without line endings
StrValues == StringsUpTo(CodecChars, MaxStrLen)

\* the values a field of type ty can hold
FieldValues(ty) ==
    CASE ty = "str" -> StrValues
      [] ty = "u" -> 0..MaxUnsigned
      [] ty = "i" -> (0 - MaxSigned)..MaxSigned
      [] ty = "opt" -> {None} \cup {Some(v) : v \in StrValues \ {<<>>}}
      [] ty = "seq" -> StringsUpTo(StrValues \ {<<>>}, MaxListLen)

Fields == UNION {{[ty |-> ty, val |-> v] : v \in FieldValues(ty)} : ty \in FieldTypes}

CodecInit ==
    /\ cpc = "input"
    /\ record \in UNION {[1..n -> Fields] : n \in 1..MaxFields}
    /\ document = None
    /\ decoded = None
    /\ VersionIdle
    /\ ParseIdle
    /\ PackageIdle
    /\ LoadIdle
    /\ ServiceIdle

\* ser::to_string(&record)
Serialize ==
    /\ cpc = "input"
    /\ document' = Some(to_string(record))
    /\ cpc' = "serialized"
    /\ UNCHANGED <<record, decoded, versionVars, parseVars, pkgVars, loadVars, serviceVars>>

\* de::from_str(&document)
Deserialize ==
    /\ cpc = "serialized"
    /\ decoded' = Some(from_str(Unwrap(document), SubSeq(FieldNames, 1, Len(record)),
                                 [i \in 1..Len(record) |-> record[i].ty]))
    /\ cpc' = "deserialized"
    /\ UNCHANGED <<record, document, versionVars, parseVars, pkgVars, loadVars, serviceVars>>

CodecNext == Serialize \/ Deserialize

SpecCodec == CodecInit /\ [][CodecNext]_vars

(***************************************************************************)
(* LocalPackage::validate and size_on_disk on a package and a filesystem,  *)
(* before and after the Alpm instance is dropped                           *)
(***************************************************************************)
\* the mtree entries a package can hold: the i-th entry has path i
FileRecords(i) ==
    {[path |-> i, file_type |-> t, size |-> s] :
        t \in {None} \cup {Some(ty) : ty \in FileType},
        s \in {None} \cup {Some(l) : l \in RecordedSizes}}

\* the nodes of the filesystem
Nodes ==
    {[kind |-> "absent", len |-> 0], [kind |-> "denied", len |-> 0]}
    \cup {[kind |-> k, len |-> l] : k \in {"file", "dir", "symlink", "other"}, l \in NodeSizes}

\* what a symbolic link can point to
Targets == {[kind |-> "absent", len |-> 0]} \cup {[kind |-> "file", len |-> l] : l \in NodeSizes}

PackageInit ==
    /\ handle_alive = TRUE
    /\ \E n \in 0..MaxFiles :
          /\ pkg_files \in {f \in [1..n -> UNION {FileRecords(i) : i \in 1..n}] :
                               \A i \in 1..n : f[i].path = i}
          /\ disk \in [1..n -> Nodes]
    /\ call = None
    /\ outcome = None
    /\ VersionIdle
    /\ ParseIdle
    /\ CodecIdle
    /\ LoadIdle
    /\ ServiceIdle

\* the Alpm instance goes out of scope: the weak handles dangle
DropAlpm ==
    /\ handle_alive
    /\ call = None
    /\ handle_alive' = FALSE
    /\ UNCHANGED <<pkg_files, disk, call, outcome, versionVars, parseVars, codecVars, loadVars, serviceVars>>

\* package.validate()
Validate ==
    /\ call = None
    /\ call' = Some([op |-> "validate", alive |-> handle_alive])
    /\ outcome' = Some(validate(pkg_files, disk, handle_alive))
    /\ UNCHANGED <<handle_alive, pkg_files, disk, versionVars, parseVars, codecVars, loadVars, serviceVars>>

\* package.size_on_disk(); what the symbolic links among the files point to
\* is chosen here
SizeOnDisk ==
    /\ call = None
    /\ \E targets \in [1..Len(pkg_files) -> Targets] :
          /\ \A i \in 1..Len(pkg_files) :
                disk[pkg_files[i].path].kind # "symlink" => targets[i].kind = "absent"
          /\ outcome' = Some(size_on_disk(pkg_files, disk, targets, handle_alive))
    /\ call' = Some([op |-> "size_on_disk", alive |-> handle_alive])
    /\ UNCHANGED <<handle_alive, pkg_files, disk, versionVars, parseVars, codecVars, loadVars, serviceVars>>

PackageNext == DropAlpm \/ Validate \/ SizeOnDisk

SpecPackage == PackageInit /\ [][PackageNext]_vars

(***************************************************************************)
(* The package caches: the local database directory scanned and its        *)
(* packages loaded on first access; the sync archive read on creation      *)
(***************************************************************************)
\* one `%KEY%\nvalue\n\n` entry of a desc file
desc_entry(key, value) == <<"%">> \o key \o <<"%", "\n">> \o value \o <<"\n", "\n">>

\* what can follow the name and the version in the desc file of a local
\* package: nothing, the size, the validation methods
LocalDescExtras ==
    {<<>>,
     desc_entry(<<"S", "I", "Z", "E">>, <<"1">>),
     desc_entry(<<"V", "A", "L", "I", "D", "A", "T", "I", "O", "N">>, <<"p", "g", "p">>)}

\* what can follow them in the desc member of a sync package: nothing, the
\* compressed size, the groups
SyncDescExtras ==
    {<<>>,
     desc_entry(<<"C", "S", "I", "Z", "E">>, <<"1">>),
     desc_entry(<<"G", "R", "O", "U", "P", "S">>, <<"b", "a", "s", "e">>)}

\* a desc file declaring a name and a version
desc_document(name, version, extra) ==
    desc_entry(<<"N", "A", "M", "E">>, name)
    \o desc_entry(<<"V", "E", "R", "S", "I", "O", "N">>, version) \o extra

PkgNames == {<<"a">>, <<"b">>}

PkgVersions == {<<"1", "-", "1">>, <<"1", "-", "2">>}

\* the desc files of the model: well-formed ones and one that is no desc file
DescDocuments(extras) ==
    {desc_document(n, v, x) : n \in PkgNames, v \in PkgVersions, x \in extras}
    \cup {<<"x">>}

LOCAL_DB_VERSION_FILE == <<"A", "L", "P", "M", "_", "D", "B", "_", "V", "E", "R", "S", "I", "O", "N">>

\* the names an entry of the local database directory can have: two package
\* directories, a directory whose name does not split, the version file
LocalFileNames ==
    <<<<"a", "-", "1", "-", "1">>, <<"a", "-", "1", "-", "2">>, <<"c", "-", "1">>,
      LOCAL_DB_VERSION_FILE>>

\* the files and mtree members of the package directories: a missing
\* member is None
PackageRests ==
    {[files |-> Some(<<>>), mtree |-> Some(<<>>)],
     [files |-> None, mtree |-> Some(<<>>)],
     [files |-> Some(<<>>), mtree |-> None],
     [files |-> Some(desc_entry(<<"F", "I", "L", "E", "S">>, <<"f">>)), mtree |-> Some(<<<<"f">>>>)]}

\* what the entry called n of the local database directory can be
LocalEntries(n, rest) ==
    IF n = LOCAL_DB_VERSION_FILE
    THEN {[is_dir |-> FALSE, desc |-> None, files |-> None, mtree |-> None]}
    ELSE IF split_package_dirname(n) = None
    THEN {[is_dir |-> TRUE, desc |-> None, files |-> rest.files, mtree |-> rest.mtree]}
    ELSE {[is_dir |-> TRUE, desc |-> d, files |-> rest.files, mtree |-> rest.mtree] :
             d \in {None} \cup {Some(doc) : doc \in DescDocuments(LocalDescExtras)}}

\* the local database directories holding some of the entries called names
RECURSIVE LocalDirectories(_, _)
LocalDirectories(names, rest) ==
    IF names = <<>> THEN {<<>>}
    ELSE LET others == LocalDirectories(Tail(names), rest)
         IN  others \cup {(Head(names) :> e) @@ f :
                              e \in LocalEntries(Head(names), rest), f \in others}

\* the local database directories of the model
LocalFilesystems == UNION {LocalDirectories(LocalFileNames, rest) : rest \in PackageRests}

\* the members of a sync archive: the desc of a package directory, another
\* member of it, a desc outside any directory
ArchiveMembers ==
    {[dir |-> d, file |-> "desc", contents |-> c] :
        d \in {<<"a", "-", "1", "-", "1">>, <<"b", "-", "1", "-", "2">>},
        c \in DescDocuments(SyncDescExtras)}
    \cup {[dir |-> <<"c", "-", "1">>, file |-> "desc", contents |-> <<"x">>],
          [dir |-> <<>>, file |-> "desc", contents |-> <<"x">>],
          [dir |-> <<"a", "-", "1", "-", "1">>, file |-> "depends", contents |-> <<"x">>]}

\* the orders read_dir can yield the entries of a directory in
Orders(S) ==
    {p \in [1..Cardinality(S) -> S] : \A i, j \in 1..Cardinality(S) : p[i] = p[j] => i = j}

LoadInit ==
    /\ \/ /\ db = "local"
          /\ local_fs \in LocalFilesystems
          /\ local_status = "new"
          /\ archive = None
          /\ sync_status = "idle"
       \/ /\ db = "sync"
          /\ local_fs = <<>>
          /\ local_status = "idle"
          /\ archive \in {None} \cup {Some(a) : a \in StringsUpTo(ArchiveMembers, MaxMembers)}
          /\ sync_status = "new"
    /\ local_cache = <<>>
    /\ local_count = 0
    /\ local_result = None
    /\ sync_cache = <<>>
    /\ sync_count = 0
    /\ sync_result = None
    /\ VersionIdle
    /\ ParseIdle
    /\ CodecIdle
    /\ PackageIdle
    /\ ServiceIdle

\* LocalDatabaseInner::new and populate_package_cache in AlpmBuilder::build
LocalPopulate ==
    /\ local_status = "new"
    /\ \E order \in Orders(DOMAIN local_fs) :
          LET entries == [i \in 1..Len(order) |->
                             [file_name |-> order[i], is_dir |-> local_fs[order[i]].is_dir]]
              r == local_populate_loop(entries, 1, <<>>, 0)
          IN  /\ local_cache' = r.package_cache
              /\ local_count' = r.package_count
              /\ local_result' = Some([op |-> "build", name |-> <<>>, version |-> <<>>,
                                       result |-> r.result])
              /\ local_status' = CASE r.result.tag = "Ok" -> "populated"
                                   [] r.result.tag = "Err" -> "failed"
                                   [] OTHER -> "panicked"
    /\ UNCHANGED <<db, local_fs, archive, sync_status, sync_cache, sync_count, sync_result,
                   versionVars, parseVars, codecVars, pkgVars, serviceVars>>

\* LocalDatabase::package(name, version)
LocalPackageLoad ==
    /\ local_status = "populated"
    /\ \E name \in PkgNames, version \in PkgVersions :
          \E r \in {LocalDatabaseInner_package(local_cache, local_fs, name, version)} :
              /\ local_cache' = r.package_cache
              /\ local_result' = Some([op |-> "package", name |-> name, version |-> version,
                                       result |-> r.result])
              /\ local_status' = IF r.result.tag = "Panic" THEN "panicked" ELSE "populated"
    /\ UNCHANGED <<db, local_fs, local_count, archive, sync_status, sync_cache, sync_count,
                   sync_result, versionVars, parseVars, codecVars, pkgVars, serviceVars>>

\* SyncDatabaseInner::new: populate_package_cache().unwrap()
SyncNew ==
    /\ sync_status = "new"
    /\ \E r \in {sync_populate_package_cache(archive)} :
           /\ sync_cache' = r.package_cache
           /\ sync_count' = r.package_count
           /\ sync_result' = Some(r.result)
           /\ sync_status' = IF r.result.tag = "Ok" THEN "ready" ELSE "panicked"
    /\ UNCHANGED <<db, local_fs, local_status, local_cache, local_count, local_result, archive,
                   versionVars, parseVars, codecVars, pkgVars, serviceVars>>

LoadNext == LocalPopulate \/ LocalPackageLoad \/ SyncNew

SpecLoad == LoadInit /\ [][LoadNext]_vars

(***************************************************************************)
(* LocalDatabaseInner::status called on a database path                    *)
(***************************************************************************)
MarkerChars == {"9", "1", "x", "\n"}

\* what the database path can name: nothing, a file, something that cannot
\* be examined, or a directory with or without a version file and with or
\* without other entries
DbPaths ==
    {[kind |-> k, marker |-> None, readable |-> TRUE, others |-> FALSE, listable |-> TRUE] :
        k \in {"absent", "file", "denied"}}
    \cup {n \in [kind : {"dir"},
                 marker : {None} \cup {Some(c) : c \in StringsUpTo(MarkerChars, MaxMarkerLen)},
                 readable : BOOLEAN, others : BOOLEAN, listable : BOOLEAN] :
             n.marker = None => n.readable}

StatusInit ==
    /\ dbpath \in DbPaths
    /\ status_result = None
    /\ VersionIdle
    /\ ParseIdle
    /\ CodecIdle
    /\ PackageIdle
    /\ LoadIdle
    /\ SyncIdle
    /\ ServersIdle
    /\ ReadIdle
    /\ ApiIdle

\* LocalDatabase::status()
Status ==
    /\ status_result = None
    /\ \E r \in {LocalDatabaseInner_status(dbpath)} :
          /\ dbpath' = r.node
          /\ status_result' = Some([before |-> dbpath, result |-> r.result])
    /\ UNCHANGED statusFrame

StatusNext == Status

SpecStatus == StatusInit /\ [][StatusNext]_vars

(***************************************************************************)
(* Processes synchronizing the same sync database                          *)
(***************************************************************************)
Procs == {1, 2}

\* the chunk each process receives from its mirrors
ChunkOf == <<"a", "b">>

\* the bodies a mirror can answer a process with
Bodies(p) == {[k \in 1..n |-> ChunkOf[p]] : n \in 1..MaxChunks}

\* what a request can come back with
Responses(p) ==
    {[code |-> c, body |-> <<>>] : c \in {"NOT_MODIFIED", "OTHER", "SEND_ERROR"}}
    \cup {[code |-> "OK", body |-> b] : b \in Bodies(p)}

Mirrors == {"m1", "m2"}

\* the orders self.servers.iter() can yield a set of servers in
ServerLists ==
    {s \in StringsUpTo(Mirrors, MaxServers) : \A i, j \in 1..Len(s) : s[i] = s[j] => i = j}

SyncInit ==
    /\ sync_alive \in BOOLEAN
    /\ servers \in ServerLists
    /\ dbfile \in {None, Some(<<"o">>)}
    /\ dblock = None
    /\ procs = [p \in Procs |-> NotStarted]
    /\ VersionIdle
    /\ ParseIdle
    /\ CodecIdle
    /\ PackageIdle
    /\ LoadIdle
    /\ StatusIdle
    /\ ServersIdle
    /\ ReadIdle
    /\ ApiIdle

\* SyncDatabase::synchronize(force) up to the for loop
SyncBegin(p) ==
    /\ procs[p].pc = "idle"
    /\ \E force \in BOOLEAN :
          procs' = [procs EXCEPT ![p] = synchronize_begin(@, sync_alive, dbfile, servers, force)]
    /\ UNCHANGED <<sync_alive, servers, dbfile, dblock, syncFrame>>

\* request.send() to the next server and the match on response.status()
SyncRequest(p) ==
    /\ procs[p].pc = "loop"
    /\ \E response \in Responses(p) :
          procs' = [procs EXCEPT ![p] = synchronize_request(@, response)]
    /\ UNCHANGED <<sync_alive, servers, dbfile, dblock, syncFrame>>

\* db_file_opts.create(true).write(true).truncate(true).open(&*self.path)
SyncOpen(p) ==
    /\ procs[p].pc = "open"
    /\ dbfile' = Some(<<>>)
    /\ procs' = [procs EXCEPT ![p].pc = "lock", ![p].offset = 0]
    /\ UNCHANGED <<sync_alive, servers, dblock, syncFrame>>

\* db_file.try_lock_exclusive(), and lock_exclusive() when it would block:
\* the process goes on once no other process holds the lock
SyncLock(p) ==
    /\ procs[p].pc = "lock"
    /\ dblock = None
    /\ dblock' = Some(p)
    /\ procs' = [procs EXCEPT ![p].pc = "copy"]
    /\ UNCHANGED <<sync_alive, servers, dbfile, syncFrame>>

\* response.copy_to(&mut db_file): one chunk, or the end of the body, where
\* db_file is dropped and with it the lock
SyncCopy(p) ==
    /\ procs[p].pc = "copy"
    /\ IF procs[p].body # <<>>
       THEN /\ dbfile' = Some(write_at(Unwrap(dbfile), procs[p].offset, Head(procs[p].body)))
            /\ procs' = [procs EXCEPT ![p].body = Tail(@), ![p].offset = @ + 1]
            /\ UNCHANGED dblock
       ELSE /\ procs' = [procs EXCEPT ![p] = synchronize_written(@)]
            /\ dblock' = None
            /\ UNCHANGED dbfile
    /\ UNCHANGED <<sync_alive, servers, syncFrame>>

SyncNext ==
    \E p \in Procs : SyncBegin(p) \/ SyncRequest(p) \/ SyncOpen(p) \/ SyncLock(p) \/ SyncCopy(p)

SpecSync == SyncInit /\ [][SyncNext]_vars

(***************************************************************************)
(* add_server, remove_server and clear_servers on one sync database        *)
(***************************************************************************)
Origins == {"http://h1", "http://h2"}

PathChars == {"/", "r"}

\* the urls handed to add_server and remove_server
Urls ==
    {[origin |-> o, path |-> <<"/">> \o p] :
        o \in Origins, p \in StringsUpTo(PathChars, MaxPathLen)}

ServersInit ==
    /\ db_servers = {}
    /\ server_call = None
    /\ VersionIdle
    /\ ParseIdle
    /\ CodecIdle
    /\ PackageIdle
    /\ LoadIdle
    /\ StatusIdle
    /\ SyncIdle
    /\ ReadIdle
    /\ ApiIdle

\* SyncDatabase::add_server(url)
AddServer ==
    /\ \E url \in Urls \cup {NotAUrl} :
          \E r \in {add_server(db_servers, url)} :
              /\ Cardinality(r.servers) <= MaxServers
              /\ db_servers' = r.servers
              /\ server_call' = Some([op |-> "add_server", url |-> url,
                                      before |-> db_servers, result |-> r.result])
    /\ UNCHANGED serversFrame

\* SyncDatabase::remove_server(url)
RemoveServer ==
    /\ \E url \in Urls \cup {NotAUrl} :
          \E r \in {remove_server(db_servers, url)} :
              /\ db_servers' = r.servers
              /\ server_call' = Some([op |-> "remove_server", url |-> url,
                                      before |-> db_servers, result |-> r.result])
    /\ UNCHANGED serversFrame

\* SyncDatabase::clear_servers()
ClearServers ==
    /\ db_servers' = clear_servers(db_servers)
    /\ server_call' = Some([op |-> "clear_servers", url |-> NotAUrl,
                            before |-> db_servers, result |-> Ok(<<>>)])
    /\ UNCHANGED serversFrame

ServersNext == AddServer \/ RemoveServer \/ ClearServers

SpecServers == ServersInit /\ [][ServersNext]_vars

(***************************************************************************)
(* de::from_str on documents with known and unknown keys                   *)
(***************************************************************************)
\* the target type: struct { name: String, desc: Option<String> }
ReadFields == <<<<"n", "a", "m", "e">>, <<"d", "e", "s", "c">>>>

ReadTypes == <<"str", "opt">>

\* the records a document is made of: known keys in either case and a key
\* that is no field of the target type
ReadEntries ==
    {[key |-> <<"N", "A", "M", "E">>, value |-> <<"a">>],
     [key |-> <<"n", "a", "m", "e">>, value |-> <<"b">>],
     [key |-> <<"D", "E", "S", "C">>, value |-> <<"c">>],
     [key |-> <<"X", "T", "R", "A">>, value |-> <<"x">>],
     [key |-> <<"X", "T", "R", "A">>, value |-> <<>>]}

\* the text of a document: each record as %KEY%, its value and a blank line
RECURSIVE document_text(_)
document_text(entries) ==
    IF entries = <<>> THEN <<>>
    ELSE desc_entry(Head(entries).key, Head(entries).value) \o document_text(Tail(entries))

ReadInit ==
    /\ read_doc \in StringsUpTo(ReadEntries, MaxEntries)
    /\ read_result = None
    /\ VersionIdle
    /\ ParseIdle
    /\ CodecIdle
    /\ PackageIdle
    /\ LoadIdle
    /\ StatusIdle
    /\ SyncIdle
    /\ ServersIdle
    /\ ApiIdle

\* de::from_str(&document)
ReadDocument ==
    /\ read_result = None
    /\ read_result' = Some(from_str(document_text(read_doc), ReadFields, ReadTypes))
    /\ UNCHANGED <<read_doc, readFrame>>

ReadNext == ReadDocument

SpecRead == ReadInit /\ [][ReadNext]_vars

(***************************************************************************)
(* de::from_str on a document whose one field is a scalar                  *)
(***************************************************************************)
\* the target types: struct { v: u64 } and struct { v: bool }
ScalarFields == <<<<"v">>>>

\* what value blocks are made of: the two literals, digits, a letter, a sign
ScalarTokens ==
    {<<"t", "r", "u", "e">>, <<"f", "a", "l", "s", "e">>,
     <<"1">>, <<"0">>, <<"x">>, <<"-">>}

\* the text of a sequence of tokens
RECURSIVE tokens_text(_)
tokens_text(tokens) ==
    IF tokens = <<>> THEN <<>> ELSE Head(tokens) \o tokens_text(Tail(tokens))

ScalarInit ==
    /\ scalar_input \in {tokens_text(ts) : ts \in StringsUpTo(ScalarTokens, MaxTokens)}
    /\ scalar_result = None
    /\ BaseIdle
    /\ LatestIdle
    /\ CellIdle
    /\ DirnameIdle
    /\ TripleIdle
    /\ PairIdle
    /\ RegisterIdle

\* de::from_str::<struct { v: u64 }>(&document)
DeserializeUnsigned ==
    /\ scalar_result = None
    /\ scalar_result' =
           Some([type |-> "u",
                 result |-> from_str(desc_entry(<<"V">>, scalar_input),
                                     ScalarFields, <<"u">>)])
    /\ UNCHANGED <<scalar_input, scalarFrame>>

\* de::from_str::<struct { v: bool }>(&document)
DeserializeBool ==
    /\ scalar_result = None
    /\ scalar_result' =
           Some([type |-> "bool",
                 result |-> from_str(desc_entry(<<"V">>, scalar_input),
                                     ScalarFields, <<"bool">>)])
    /\ UNCHANGED <<scalar_input, scalarFrame>>

ScalarNext == DeserializeUnsigned \/ DeserializeBool

SpecScalar == ScalarInit /\ [][ScalarNext]_vars


(***************************************************************************)
(* LocalDatabase::package_latest on a populated local database             *)
(***************************************************************************)
\* the package directories the database can hold: four versions of a, one
\* of b
InstalledNames ==
    {<<"a", "-", "2", "-", "1">>, <<"a", "-", "1", "0", "-", "1">>,
     <<"a", "-", "1", "-", "1">>, <<"a", "-", "1", "-", "2">>,
     <<"b", "-", "1", "-", "1">>}

\* the names package_latest is asked for: two that can be cached, one never
LatestNames == {<<"a">>, <<"b">>, <<"c">>}

\* the package directory called n, its desc declaring the name and the
\* version of n followed by extra
installed_dir(n, extra) ==
    [is_dir |-> TRUE,
     desc |-> Some(desc_document(Unwrap(split_package_dirname(n)).name,
                                 Unwrap(split_package_dirname(n)).version, extra)),
     files |-> Some(<<>>), mtree |-> Some(<<>>)]

\* the versions cached for name
versions_of(cache, name) == {key[2] : key \in {k \in DOMAIN cache : k[1] = name}}

\* AlpmBuilder::build has populated the cache from the directory
LatestInit ==
    /\ \E names \in SUBSET InstalledNames, extra \in LocalDescExtras :
          /\ Cardinality(names) <= MaxInstalled
          /\ latest_fs = [n \in names |-> installed_dir(n, extra)]
          /\ \E order \in Orders(names) :
                latest_cache =
                    local_populate_loop([i \in 1..Len(order) |->
                                            [file_name |-> order[i], is_dir |-> TRUE]],
                                        1, <<>>, 0).package_cache
    /\ latest_result = None
    /\ BaseIdle
    /\ ScalarIdle
    /\ CellIdle
    /\ DirnameIdle
    /\ TripleIdle
    /\ PairIdle
    /\ RegisterIdle

\* LocalDatabase::package_latest(name)
PackageLatest ==
    /\ (latest_result # None => Unwrap(latest_result).result.tag # "Panic")
    /\ \E name \in LatestNames :
          \E versions \in Orders(versions_of(latest_cache, name)) :
              \E r \in {LocalDatabaseInner_package_latest(latest_cache, latest_fs,
                                                          name, versions)} :
                  /\ latest_cache' = r.package_cache
                  /\ latest_result' = Some([name |-> name, version |-> r.version,
                                            result |-> r.result])
    /\ UNCHANGED <<latest_fs, latestFrame>>

LatestNext == PackageLatest

SpecLatest == LatestInit /\ [][LatestNext]_vars


(***************************************************************************)
(* Read-only operations of one SyncDatabase, at the top level and from     *)
(* inside the callback of packages().  The cache is as                     *)
(* populate_package_cache fills it from an archive whose desc members      *)
(* parse.                                                                  *)
(***************************************************************************)
CellNames == {<<"a">>, <<"b">>, <<"c">>}

CellVersions == {<<"1", "-", "1">>, <<"1", "-", "2">>}

ReadOps == {"servers", "path", "status", "package", "package_latest"}

\* the call of packages() in progress: order is the order values() yields
\* the packages in, next the position of the package handed to the callback
\* next, in_callback whether the callback is running
Frame(order) == [order |-> order, next |-> 1, in_callback |-> FALSE]

Top == cell_stack[Len(cell_stack)]

Pop == SubSeq(cell_stack, 1, Len(cell_stack) - 1)

\* the program is at the top level or inside the innermost callback
CanCall ==
    /\ cell_result # None => Unwrap(cell_result).result.tag # "Panic"
    /\ cell_stack # <<>> => Top.in_callback

\* packages() is between two calls of its callback
InLoop ==
    /\ cell_result # None => Unwrap(cell_result).result.tag # "Panic"
    /\ cell_stack # <<>>
    /\ ~Top.in_callback

CellInit ==
    /\ \E names \in SUBSET CellNames, urls \in SUBSET {"m1"} :
          /\ Cardinality(names) <= MaxCached
          /\ cell_inner = [servers |-> urls, path |-> "core.db",
                           package_cache |->
                               [n \in names |-> [name |-> n, version |-> <<"1", "-", "1">>]]]
    /\ cell_flag = 0
    /\ cell_stack = <<>>
    /\ cell_result = None
    /\ BaseIdle
    /\ ScalarIdle
    /\ LatestIdle
    /\ DirnameIdle
    /\ TripleIdle
    /\ PairIdle
    /\ RegisterIdle

\* SyncDatabase::packages up to the loop: let db = self.inner.borrow()
PackagesEnter ==
    /\ CanCall
    /\ Len(cell_stack) < MaxDepth
    /\ \E order \in Orders(DOMAIN cell_inner.package_cache) :
          IF try_borrow(cell_flag) = None
          THEN /\ cell_result' = Some([op |-> "packages", depth |-> Len(cell_stack),
                                       result |-> Panic])
               /\ UNCHANGED <<cell_flag, cell_stack>>
          ELSE /\ cell_flag' = Unwrap(try_borrow(cell_flag))
               /\ cell_stack' = Append(cell_stack, Frame(order))
               /\ UNCHANGED cell_result
    /\ UNCHANGED <<cell_inner, cellFrame>>

\* the loop hands the next package to the callback: f(package.clone())
CallbackEnter ==
    /\ InLoop
    /\ Top.next <= Len(Top.order)
    /\ cell_stack' = [cell_stack EXCEPT ![Len(cell_stack)].in_callback = TRUE]
    /\ UNCHANGED <<cell_inner, cell_flag, cell_result, cellFrame>>

\* a read-only operation other than packages; its borrow ends with the call
Read ==
    /\ CanCall
    /\ \E op \in ReadOps, name \in CellNames, version \in CellVersions,
          file \in {None, Some(<<>>)} :
          cell_result' =
              Some([op |-> op, depth |-> Len(cell_stack),
                    result |-> SyncDatabase_read(op, cell_flag, cell_inner, file,
                                                 name, version)])
    /\ UNCHANGED <<cell_inner, cell_flag, cell_stack, cellFrame>>

\* the callback returns: on Ok the loop goes on, on Err packages() returns
\* the error and db is dropped
CallbackReturn ==
    /\ CanCall
    /\ cell_stack # <<>>
    /\ \E ok \in BOOLEAN :
          IF ok
          THEN /\ cell_stack' = [cell_stack EXCEPT ![Len(cell_stack)] =
                                    [@ EXCEPT !.next = @ + 1, !.in_callback = FALSE]]
               /\ UNCHANGED <<cell_flag, cell_result>>
          ELSE /\ cell_stack' = Pop
               /\ cell_flag' = cell_flag - 1
               /\ cell_result' = Some([op |-> "packages", depth |-> Len(cell_stack) - 1,
                                       result |-> Err("Callback")])
    /\ UNCHANGED <<cell_inner, cellFrame>>

\* the loop is over: Ok(()) and db is dropped
PackagesReturn ==
    /\ InLoop
    /\ Top.next > Len(Top.order)
    /\ cell_stack' = Pop
    /\ cell_flag' = cell_flag - 1
    /\ cell_result' = Some([op |-> "packages", depth |-> Len(cell_stack) - 1,
                            result |-> Ok(<<>>)])
    /\ UNCHANGED <<cell_inner, cellFrame>>

CellNext == PackagesEnter \/ CallbackEnter \/ Read \/ CallbackReturn \/ PackagesReturn

SpecCell == CellInit /\ [][CellNext]_vars


(***************************************************************************)
(* split_package_dirname applied to a directory name                       *)
(***************************************************************************)
\* the characters directory names are drawn from
DirnameChars == {"a", "1", "-"}

DirnameInit ==
    /\ dirname_input \in StringsUpTo(DirnameChars, MaxDirLen)
    /\ dirname_result = None
    /\ BaseIdle
    /\ ScalarIdle
    /\ LatestIdle
    /\ CellIdle
    /\ TripleIdle
    /\ PairIdle
    /\ RegisterIdle

\* split_package_dirname(&file_name)
SplitDirname ==
    /\ dirname_result = None
    /\ dirname_result' = Some(split_package_dirname(dirname_input))
    /\ UNCHANGED <<dirname_input, dirnameFrame>>

DirnameNext == SplitDirname

SpecDirname == DirnameInit /\ [][DirnameNext]_vars


(***************************************************************************)
(* The comparator and Version equality applied to three version strings    *)
(***************************************************************************)
\* the characters the three strings are drawn from: those of VersionChars
TripleChars == VersionChars

\* w cut into three strings behind its first i and its first j characters
Cut(w, i, j) == <<SubSeq(w, 1, i), SubSeq(w, i + 1, j), SubSeq(w, j + 1, Len(w))>>

TripleInit ==
    /\ \E w \in StringsUpTo(TripleChars, MaxTripleLen) :
          \E i \in 0..Len(w) : \E j \in i..Len(w) : triple = Cut(w, i, j)
    /\ triple_result = None
    /\ BaseIdle
    /\ ScalarIdle
    /\ LatestIdle
    /\ CellIdle
    /\ DirnameIdle
    /\ PairIdle
    /\ RegisterIdle

\* version_cmp on each pair of the three strings
CompareTriple ==
    /\ triple_result = None
    /\ triple_result' =
           Some([op |-> "version_cmp",
                 of |-> [p \in (1..3) \X (1..3) |-> version_cmp(triple[p[1]], triple[p[2]])]])
    /\ UNCHANGED <<triple, tripleFrame>>

\* Version::parse of each string and == on each pair of the versions
EqTriple ==
    /\ triple_result = None
    /\ triple_result' =
           Some([op |-> "eq",
                 of |-> [p \in (1..3) \X (1..3) |->
                            Version_eq(Version_parse(triple[p[1]]),
                                       Version_parse(triple[p[2]]))]])
    /\ UNCHANGED <<triple, tripleFrame>>

TripleNext == CompareTriple \/ EqTriple

SpecTriple == TripleInit /\ [][TripleNext]_vars


(***************************************************************************)
(* add_server followed by remove_server of the same url                    *)
(***************************************************************************)
\* the server sets add_server can have built: every member ends in '/'
ServerSets ==
    {S \in SUBSET {with_trailing_slash(u) : u \in Urls} : Cardinality(S) <= MaxServers}

PairInit ==
    /\ pair_servers \in ServerSets
    /\ pair_call = None
    /\ BaseIdle
    /\ ScalarIdle
    /\ LatestIdle
    /\ CellIdle
    /\ DirnameIdle
    /\ TripleIdle
    /\ RegisterIdle

\* SyncDatabase::add_server(url) for a url that is not a member
AddFirst ==
    /\ pair_call = None
    /\ \E url \in Urls :
          /\ url \notin pair_servers
          /\ with_trailing_slash(url) \notin pair_servers
          /\ \E r \in {add_server(pair_servers, url)} :
                /\ pair_servers' = r.servers
                /\ pair_call' = Some([url |-> url, before |-> pair_servers,
                                      stage |-> "added", result |-> r.result])
    /\ UNCHANGED pairFrame

\* SyncDatabase::remove_server(url) for the url just added
RemoveAdded ==
    /\ pair_call # None
    /\ pair_call # None => Unwrap(pair_call).stage = "added"
    /\ \E r \in {remove_server(pair_servers, Unwrap(pair_call).url)} :
          /\ pair_servers' = r.servers
          /\ pair_call' = Some([Unwrap(pair_call) EXCEPT !.stage = "removed",
                                                         !.result = r.result])
    /\ UNCHANGED pairFrame

PairNext == AddFirst \/ RemoveAdded

SpecPair == PairInit /\ [][PairNext]_vars


(***************************************************************************)
(* Alpm::sync_database: sync databases registered by name, each read from  *)
(* its archive on creation                                                 *)
(***************************************************************************)
LOCAL_DB_NAME == <<"l", "o", "c", "a", "l">>

\* SyncDbName::is_valid
SyncDbName_is_valid(name) ==
    \A i \in 1..Len(name) : name[i] \notin {"/", "\\", "."}

\* SyncDbName::new
SyncDbName_new(name) ==
    IF name = LOCAL_DB_NAME THEN Err("InvalidDatabaseName")
    ELSE IF SyncDbName_is_valid(name) THEN Ok(name)
    ELSE Err("InvalidDatabaseName")

\* SyncDatabaseInner::new: the assertion, then populate_package_cache()
\* unwrapped; file is what the path of the database names, None when it
\* cannot be opened
SyncDatabaseInner_new(sync_databases, name, file) ==
    IF name \in DOMAIN sync_databases THEN Panic
    ELSE LET with(populated) ==
                 IF populated.result.tag # "Ok" THEN Panic
                 ELSE Ok([servers |-> {}, package_cache |-> populated.package_cache,
                          package_count |-> populated.package_count])
         IN  with(sync_populate_package_cache(file))

\* Alpm::register_sync_database: [result, sync_databases]
Alpm_register_sync_database(sync_databases, files, name) ==
    LET with(new_db) ==
            IF new_db.tag # "Ok" THEN [result |-> new_db, sync_databases |-> sync_databases]
            ELSE [result |-> Ok(name),
                  sync_databases |->
                      [n \in DOMAIN sync_databases \cup {name} |->
                          IF n = name THEN Unwrap(new_db.val) ELSE sync_databases[n]]]
    IN  with(SyncDatabaseInner_new(sync_databases, name, files[name]))

\* Alpm::sync_database: [result, sync_databases]
Alpm_sync_database(sync_databases, files, name) ==
    IF SyncDbName_new(name).tag # "Ok"
    THEN [result |-> SyncDbName_new(name), sync_databases |-> sync_databases]
    ELSE IF name \in DOMAIN sync_databases
    THEN [result |-> Ok(name), sync_databases |-> sync_databases]
    ELSE Alpm_register_sync_database(sync_databases, files, name)

\* the names sync_database is called with
DbNames == {<<"c">>, <<"e">>, LOCAL_DB_NAME, <<"a", "/">>, <<".">>}

\* what the path of a sync database can name: nothing, or an archive
ArchiveFiles ==
    {None} \cup {Some(a) : a \in StringsUpTo(ArchiveMembers, MaxRegMembers)}

RegisterInit ==
    /\ reg_files \in [{n \in DbNames : SyncDbName_new(n).tag = "Ok"} -> ArchiveFiles]
    /\ reg_databases = <<>>
    /\ reg_call = None
    /\ BaseIdle
    /\ ScalarIdle
    /\ LatestIdle
    /\ CellIdle
    /\ DirnameIdle
    /\ TripleIdle
    /\ PairIdle

\* alpm.sync_database(name); a panic ends the run
SyncDatabaseCall ==
    /\ reg_call # None => Unwrap(reg_call).result.tag # "Panic"
    /\ \E name \in DbNames :
          \E r \in {Alpm_sync_database(reg_databases, reg_files, name)} :
              /\ reg_databases' = r.sync_databases
              /\ reg_call' = Some([name |-> name, before |-> reg_databases,
                                   result |-> r.result])
    /\ UNCHANGED <<reg_files, registerFrame>>

RegisterNext == SyncDatabaseCall

SpecRegister == RegisterInit /\ [][RegisterNext]_vars


(***************************************************************************)
(* Properties of the codec                                                 *)
(***************************************************************************)
\* C2: codec round trip: de::from_str(ser::to_string(x)) succeeds and returns
\* a record equal to x, for every record of scalar, list and optional fields.
RoundTrip ==
    cpc = "deserialized" =>
        /\ Unwrap(decoded).tag = "Ok"
        /\ Unwrap(Unwrap(decoded).val) = [i \in 1..Len(record) |-> record[i].val]

(***************************************************************************)
(* Properties of the version comparator                                    *)
(***************************************************************************)
Compared == vpc \in {"compared", "parsed", "ordered", "hashed"}

Ordered == vpc \in {"ordered", "hashed"}

\* C1: Hash/Eq law for Version: whenever the two parsed versions compare Equal,
\* hashing them feeds the same sequence of calls to the hasher, also when only
\* one of them has a release.
HashEqLaw ==
    (vpc = "hashed" /\ Unwrap(ord) = "Equal") => hleft = hright

\* C3: Version::cmp is the epochs' version_cmp if that is not Equal, else the
\* versions' version_cmp if that is not Equal, else the releases' version_cmp
\* when both are present, else Equal.
VersionCmpOrder ==
    Ordered =>
        LET l == Unwrap(vleft)
            r == Unwrap(vright)
            e == version_cmp(l.epoch, r.epoch)
            v == version_cmp(l.version, r.version)
            both == l.release # None /\ r.release # None
        IN  /\ e # "Equal" => Unwrap(ord) = e
            /\ (e = "Equal" /\ v # "Equal") => Unwrap(ord) = v
            /\ (e = "Equal" /\ v = "Equal" /\ both)
                  => Unwrap(ord) = version_cmp(Unwrap(l.release), Unwrap(r.release))
            /\ (e = "Equal" /\ v = "Equal" /\ ~both) => Unwrap(ord) = "Equal"

\* a comparison was made in which epoch and version are equal and exactly one
\* side has a release, a non-empty one
VersionCmpOrderWitness ==
    /\ Ordered
    /\ version_cmp(Unwrap(vleft).epoch, Unwrap(vright).epoch) = "Equal"
    /\ version_cmp(Unwrap(vleft).version, Unwrap(vright).version) = "Equal"
    /\ Unwrap(vleft).release = Some(<<"1">>)
    /\ Unwrap(vright).release = None
    /\ Unwrap(ord) = "Equal"

\* two blocks are the same block
BlockEq(x, y) == x.kind = y.kind /\ x.bytes = y.bytes /\ x.len = y.len

\* every block of short equals the block of long at its position, and long
\* has blocks left
RunsOut(short, long) ==
    /\ Len(short) < Len(long)
    /\ \A i \in 1..Len(short) : BlockEq(short[i], long[i])

\* what is left of the longer input once one separator block is skipped:
\* "alpha", "numeric" or "nothing"
LeftOver(short, long) ==
    LET k == Len(short) + 1
        j == IF long[k].kind = "Separator" THEN k + 1 ELSE k
    IN  IF j > Len(long) THEN "nothing"
        ELSE IF long[j].kind = "Alpha" THEN "alpha"
        ELSE "numeric"

\* C4: run-out rule of version_cmp: when all compared blocks are equal and one
\* input is exhausted, the longer input is older if its next block (after one
\* separator block) is alpha, newer if it is numeric, and equal if only a
\* separator remains.
RunOutRule ==
    Compared =>
        LET bl == Blocks(left)
            br == Blocks(right)
        IN  /\ RunsOut(br, bl) =>
                Unwrap(cmp_raw) = (CASE LeftOver(br, bl) = "alpha" -> "Less"
                                     [] LeftOver(br, bl) = "numeric" -> "Greater"
                                     [] LeftOver(br, bl) = "nothing" -> "Equal")
            /\ RunsOut(bl, br) =>
                Unwrap(cmp_raw) = (CASE LeftOver(bl, br) = "alpha" -> "Greater"
                                     [] LeftOver(bl, br) = "numeric" -> "Less"
                                     [] LeftOver(bl, br) = "nothing" -> "Equal")

\* the left input ran on with a separator and an alpha block after the right
\* input ended, and was found older
RunOutRuleWitness ==
    /\ Compared
    /\ right # <<>>
    /\ RunsOut(Blocks(right), Blocks(left))
    /\ Blocks(left)[Len(Blocks(right)) + 1].kind = "Separator"
    /\ LeftOver(Blocks(right), Blocks(left)) = "alpha"
    /\ Unwrap(cmp_raw) = "Less"

\* C5: separator blocks at the same position: Equal whatever their lengths if
\* the block is the last of both inputs; otherwise equal lengths go on to the
\* next block and the longer run makes its side Greater.
SeparatorRule ==
    Compared =>
        LET bl == Blocks(left)
            br == Blocks(right)
        IN  \A i \in 1..Len(bl) :
                (/\ i <= Len(br)
                 /\ \A j \in 1..(i - 1) : BlockEq(bl[j], br[j])
                 /\ bl[i].kind = "Separator"
                 /\ br[i].kind = "Separator")
                => IF i = Len(bl) /\ i = Len(br) THEN Unwrap(cmp_raw) = "Equal"
                   ELSE IF bl[i].len > br[i].len THEN Unwrap(cmp_raw) = "Greater"
                   ELSE IF bl[i].len < br[i].len THEN Unwrap(cmp_raw) = "Less"
                   ELSE Unwrap(cmp_raw) =
                            version_cmp_loop(SubSeq(bl, i + 1, Len(bl)),
                                             SubSeq(br, i + 1, Len(br)), 1)

\* both inputs end in separator runs of different lengths after equal blocks
SeparatorRuleWitness ==
    /\ Compared
    /\ Len(Blocks(left)) = 2
    /\ Len(Blocks(right)) = 2
    /\ BlockEq(Blocks(left)[1], Blocks(right)[1])
    /\ Blocks(left)[2].kind = "Separator"
    /\ Blocks(right)[2].kind = "Separator"
    /\ Blocks(left)[2].len > Blocks(right)[2].len
    /\ Unwrap(cmp_raw) = "Equal"

\* the integer a run of ASCII digits denotes
RECURSIVE DigitsValue(_)
DigitsValue(d) ==
    IF d = <<>> THEN 0
    ELSE 10 * DigitsValue(SubSeq(d, 1, Len(d) - 1)) + (ByteOf[d[Len(d)]] - ByteOf["0"])

IsDigitRun(d) == d # <<>> /\ \A i \in 1..Len(d) : is_ascii_digit(d[i])

\* C6: numeric runs compare by value behind any prefix that is empty or ends
\* in a non-digit: version_cmp(p ++ d1, p ++ d2) is the comparison of the
\* integers d1 and d2.
NumericByValue ==
    Compared =>
        \A k \in 0..Len(left) :
            (/\ k <= Len(right)
             /\ SliceTo(left, k) = SliceTo(right, k)
             /\ (k = 0 \/ ~is_ascii_digit(left[k]))
             /\ IsDigitRun(SliceFrom(left, k))
             /\ IsDigitRun(SliceFrom(right, k)))
            => Unwrap(cmp_raw) = int_cmp(DigitsValue(SliceFrom(left, k)),
                                         DigitsValue(SliceFrom(right, k)))

Contains(s, ch) == \E i \in 1..Len(s) : s[i] = ch

\* s starts with a (possibly empty) run of ASCII digits followed by ':'
StartsWithEpoch(s) ==
    \E i \in 1..Len(s) : s[i] = ":" /\ \A j \in 1..(i - 1) : is_ascii_digit(s[j])

\* v is the split of s the claim describes
IsSplitOf(v, s) ==
    \E k \in 0..Len(s) :
        LET remainder == SliceFrom(s, k)
        IN  /\ IF StartsWithEpoch(s)
               THEN /\ s = v.epoch \o <<":">> \o remainder
                    /\ \A j \in 1..Len(v.epoch) : is_ascii_digit(v.epoch[j])
               ELSE /\ v.epoch = <<"0">>
                    /\ remainder = s
            /\ IF Contains(remainder, "-")
               THEN /\ v.release # None
                    /\ remainder = v.version \o <<"-">> \o Unwrap(v.release)
                    /\ ~Contains(Unwrap(v.release), "-")
               ELSE /\ v.release = None
                    /\ v.version = remainder

RecordAbsent(i) == disk[pkg_files[i].path].kind = "absent"

\* the on-disk type of the i-th file record
OnDiskType(i) ==
    CASE disk[pkg_files[i].path].kind = "file" -> "File"
      [] disk[pkg_files[i].path].kind = "dir" -> "Directory"
      [] disk[pkg_files[i].path].kind = "symlink" -> "SymbolicLink"
      [] OTHER -> "Other"

\* the discrepancies of the i-th file record, as the claim lists them
Discrepancies(i) ==
    LET rec == pkg_files[i]
        node == disk[rec.path]
    IN  IF RecordAbsent(i)
        THEN <<[error |-> "FileNotFound", filename |-> <<"/", rec.path>>,
                expected |-> None, actual |-> None]>>
        ELSE (IF /\ rec.file_type \in {Some("File"), Some("Directory"), Some("SymbolicLink")}
                 /\ rec.file_type # Some(OnDiskType(i))
              THEN <<[error |-> "WrongType", filename |-> <<rec.path>>,
                      expected |-> rec.file_type, actual |-> Some(OnDiskType(i))]>>
              ELSE <<>>)
             \o (IF rec.size # None /\ rec.size # Some(node.len)
                 THEN <<[error |-> "WrongSize", filename |-> <<rec.path>>,
                         expected |-> rec.size, actual |-> Some(node.len)]>>
                 ELSE <<>>)

\* the discrepancies of the records i.. in file order
RECURSIVE AllDiscrepancies(_)
AllDiscrepancies(i) ==
    IF i > Len(pkg_files) THEN <<>> ELSE Discrepancies(i) \o AllDiscrepancies(i + 1)

\* validate was called while the Alpm instance existed
Validated == call # None /\ Unwrap(call).op = "validate" /\ Unwrap(call).alive

\* every path of the package could be examined (it is there or it is absent)
AllExaminable == \A i \in 1..Len(pkg_files) : disk[pkg_files[i].path].kind # "denied"

\* C8: validate checks every file record and never stops at the first
\* discrepancy: when every path can be examined it returns, in file order,
\* exactly one FileNotFound for each absent record and nothing else for it,
\* one WrongType for each present record whose expected type File, Directory
\* or SymbolicLink differs from the on-disk type, and one WrongSize for each
\* present record whose recorded size differs from the on-disk size; the
\* only other result is the I/O error of a path that cannot be examined.
ValidateExhaustive ==
    Validated =>
        /\ AllExaminable => Unwrap(outcome) = Ok(AllDiscrepancies(1))
        /\ ~AllExaminable => Unwrap(outcome) = Err("PermissionDenied")

\* validate returned a missing file followed by a wrong type and a wrong
\* size of the next file
ValidateExhaustiveWitness ==
    /\ Validated
    /\ Unwrap(outcome).tag = "Ok"
    /\ Len(Unwrap(Unwrap(outcome).val)) = 3
    /\ Unwrap(Unwrap(outcome).val)[1].error = "FileNotFound"
    /\ Unwrap(Unwrap(outcome).val)[2].error = "WrongType"
    /\ Unwrap(Unwrap(outcome).val)[3] =
          [error |-> "WrongSize", filename |-> <<2>>,
           expected |-> Some(100), actual |-> Some(50)]

\* C9: use-after-drop is an error, never a crash: an operation that resolves
\* the weak reference to the handle after the Alpm instance was dropped
\* returns the use-after-drop error and does not panic.
UseAfterDropIsError ==
    (call # None /\ ~Unwrap(call).alive) => Unwrap(outcome) = Err("UseAfterDrop")

(***************************************************************************)
(* Properties of the package caches                                        *)
(***************************************************************************)
\* the desc file doc declares a name and a version that are not both those
\* of the location
Disagrees(doc, extras, name, version) ==
    \E n \in PkgNames, v \in PkgVersions, x \in extras :
        /\ doc = desc_document(n, v, x)
        /\ <<n, v>> # <<name, version>>

\* the last call loaded the local package of an existing directory whose
\* desc file disagrees with the directory name
LocalMismatchLoaded ==
    /\ local_result # None
    /\ Unwrap(local_result).op = "package"
    /\ LET name == Unwrap(local_result).name
           version == Unwrap(local_result).version
           dir == name \o <<"-">> \o version
       IN  /\ dir \in DOMAIN local_fs
           /\ local_fs[dir].desc # None
           /\ Disagrees(Unwrap(local_fs[dir].desc), LocalDescExtras, name, version)

\* the archive starts with the desc member of a package directory, and that
\* desc disagrees with the directory name
SyncMismatchRead ==
    /\ sync_result # None
    /\ archive # None
    /\ Unwrap(archive) # <<>>
    /\ LET member == Unwrap(archive)[1]
           split == split_package_dirname(member.dir)
       IN  /\ member.file = "desc"
           /\ split # None
           /\ Disagrees(member.contents, SyncDescExtras,
                        Unwrap(split).name, Unwrap(split).version)

\* C10: location and description agree: every loaded package held in a cache
\* under the name and version derived from its directory or archive member
\* has that name and that version in its desc, and a load whose desc
\* disagrees on either returns the invalid-package error naming the
\* location-derived package and leaves no loaded entry.
LocationAgreement ==
    /\ \A key \in DOMAIN local_cache :
          local_cache[key].loaded =>
              /\ Unwrap(local_cache[key].pkg).desc.name = key[1]
              /\ Unwrap(local_cache[key].pkg).desc.version = key[2]
    /\ \A name \in DOMAIN sync_cache :
          /\ sync_cache[name].desc.name = name
          /\ \E i \in 1..Len(Unwrap(archive)) :
                /\ Unwrap(archive)[i].file = "desc"
                /\ split_package_dirname(Unwrap(archive)[i].dir) =
                      Some([name |-> name, version |-> sync_cache[name].desc.version])
    /\ LocalMismatchLoaded =>
          /\ Unwrap(local_result).result =
                invalid_local_package(Unwrap(local_result).name)
          /\ ~local_cache[<<Unwrap(local_result).name, Unwrap(local_result).version>>].loaded
    /\ SyncMismatchRead =>
          /\ Unwrap(sync_result) =
                invalid_sync_package(Unwrap(split_package_dirname(Unwrap(archive)[1].dir)).name)
          /\ sync_cache = <<>>

(***************************************************************************)
(* Properties of the local database status                                 *)
(***************************************************************************)
StatusCalled == status_result # None

\* the directory existed and held no entry at all when status() was called
EmptyDirectory(b) == b.kind = "dir" /\ b.marker = None /\ ~b.others

\* C11: status() on a database path that is an existing directory with no
\* entries creates ALPM_DB_VERSION in it holding "9" and a newline, and
\* returns Exists{valid: true}.
BootstrapCreatesMarker ==
    (StatusCalled /\ EmptyDirectory(Unwrap(status_result).before)
                  /\ Unwrap(status_result).before.listable) =>
        /\ Unwrap(status_result).result = Ok(Exists(TRUE))
        /\ dbpath.kind = "dir"
        /\ dbpath.marker = Some(<<"9", "\n">>)

\* the content starts with a run of digits denoting the current version
HoldsCurrentVersion(content) ==
    \E n \in 1..Len(content) :
        /\ IsDigitRun(SubSeq(content, 1, n))
        /\ n < Len(content) => ~is_ascii_digit(content[n + 1])
        /\ DigitsValue(SubSeq(content, 1, n)) = 9

EventsOf(p, event) == {j \in 1..Len(procs[p].log) : procs[p].log[j].event = event}

\* C13: once a mirror has answered not-modified, or ok and its body has been
\* written, the synchronize call sends no further request.
OneMirrorAfterAnswer ==
    \A p \in DOMAIN procs :
        \A j \in EventsOf(p, "NOT_MODIFIED") \cup EventsOf(p, "written") :
            \A k \in EventsOf(p, "request") : k < j

\* both processes have returned from synchronize after an ok response each
BothSynchronized ==
    /\ DOMAIN procs = Procs
    /\ \A p \in Procs : procs[p].pc = "returned" /\ EventsOf(p, "OK") # {}

\* C14: two processes synchronizing the same database that both receive an
\* ok response serialize on the archive file: in the end the file holds
\* exactly the complete body one of them wrote.
SerializedWrites ==
    BothSynchronized =>
        \E p \in Procs : \E j \in EventsOf(p, "OK") : dbfile = Some(procs[p].log[j].body)

(***************************************************************************)
(* Properties of the sync database cache                                   *)
(***************************************************************************)
\* the archive holds two desc members under the same package directory, each
\* a complete description agreeing with that directory
DuplicateArchive ==
    /\ archive # None
    /\ Len(Unwrap(archive)) = 2
    /\ \A i \in 1..2 :
          /\ Unwrap(archive)[i].file = "desc"
          /\ Unwrap(archive)[i].dir = <<"a", "-", "1", "-", "1">>
          /\ Unwrap(archive)[i].contents =
                desc_document(<<"a">>, <<"1", "-", "1">>,
                              desc_entry(<<"C", "S", "I", "Z", "E">>, <<"1">>))

EndsInSlash(url) == url.path # <<>> /\ url.path[Len(url.path)] = "/"

\* the url with a '/' behind its path unless it has one
Slashed(url) == IF EndsInSlash(url) THEN url ELSE [url EXCEPT !.path = @ \o <<"/">>]

\* C16: after any sequence of add_server, remove_server and clear_servers
\* the path of every stored url ends in '/'; add_server of a url that is
\* present after normalization and remove_server of a url that is no member
\* return Ok and leave the set as it was; clear_servers leaves it empty.
ServerSetNormalized ==
    /\ \A url \in db_servers : EndsInSlash(url)
    /\ server_call # None =>
          LET c == Unwrap(server_call)
          IN  /\ (c.op = "add_server" /\ c.url # NotAUrl /\ Slashed(c.url) \in c.before)
                    => (c.result = Ok(<<>>) /\ db_servers = c.before)
              /\ (c.op = "remove_server" /\ c.url # NotAUrl /\ c.url \notin c.before)
                    => (c.result = Ok(<<>>) /\ db_servers = c.before)
              /\ c.op = "clear_servers" => db_servers = {}

ServerSetNormalizedWitness ==
    /\ server_call # None
    /\ Unwrap(server_call).op = "add_server"
    /\ ~EndsInSlash(Unwrap(server_call).url)
    /\ Slashed(Unwrap(server_call).url) \in Unwrap(server_call).before
    /\ Unwrap(server_call).result = Ok(<<>>)
    /\ db_servers = Unwrap(server_call).before

(***************************************************************************)
(* Properties of reading documents                                         *)
(***************************************************************************)
\* the key of the k-th record matches no field of the target type
UnknownKey(k) ==
    \A i \in 1..Len(ReadFields) : to_uppercase(ReadFields[i]) # to_uppercase(read_doc[k].key)

\* the document without its k-th record
WithoutRecord(k) == SubSeq(read_doc, 1, k - 1) \o SubSeq(read_doc, k + 1, Len(read_doc))

\* C17: unknown keys are ignored on read: a document holding a well-formed
\* record whose key matches no field of the target type, whatever the case,
\* deserializes to what the document without that record deserializes to.
UnknownKeysIgnored ==
    read_result # None =>
        \A k \in 1..Len(read_doc) :
            UnknownKey(k) =>
                Unwrap(read_result) =
                    from_str(document_text(WithoutRecord(k)), ReadFields, ReadTypes)

(***************************************************************************)
(* Properties of the block iterator                                        *)
(***************************************************************************)
\* the kind of each block BlocksIter yields for input and the bytes of the
\* input it was cut from
RECURSIVE BlockRuns(_)
BlockRuns(input) ==
    LET n == BlocksIter_next(input)
    IN  IF n = None THEN <<>>
        ELSE <<[kind |-> Unwrap(n).block.kind,
                text |-> SubSeq(input, 1, Len(input) - Len(Unwrap(n).rest))]>>
             \o BlockRuns(Unwrap(n).rest)

RECURSIVE ConcatRuns(_)
ConcatRuns(runs) == IF runs = <<>> THEN <<>> ELSE Head(runs).text \o ConcatRuns(Tail(runs))

\* the class of a byte: the kind of the block it belongs in
ClassOf(ch) ==
    IF ch \in LowerLetters \cup UpperLetters THEN "Alpha"
    ELSE IF ch \in Digits THEN "Numeric"
    ELSE "Separator"

MaximalRuns(input) ==
    LET runs == BlockRuns(input)
    IN  /\ ConcatRuns(runs) = input
        /\ \A i \in 1..Len(runs) :
              /\ runs[i].text # <<>>
              /\ \A k \in 1..Len(runs[i].text) : ClassOf(runs[i].text[k]) = runs[i].kind
        /\ \A i \in 1..(Len(runs) - 1) : runs[i].kind # runs[i + 1].kind

\* C18: BlocksIter partitions every input into maximal single-class runs:
\* the blocks cover the input in order, an Alpha block holds only letters, a
\* Numeric block only digits, a Separator block only other bytes, and no two
\* consecutive blocks have the same class.
BlocksPartition == Compared => (MaximalRuns(left) /\ MaximalRuns(right))

(***************************************************************************)
(* Properties of version_hash                                              *)
(***************************************************************************)
\* the lengths of the separator blocks of input that are not its last block
RECURSIVE InnerSeparators(_, _)
InnerSeparators(blocks, i) ==
    IF i >= Len(blocks) THEN <<>>
    ELSE (IF blocks[i].kind = "Separator" THEN <<blocks[i].len>> ELSE <<>>)
         \o InnerSeparators(blocks, i + 1)

\* the arguments of the write_usize calls among hasher calls
RECURSIVE UsizeWrites(_)
UsizeWrites(calls) ==
    IF calls = <<>> THEN <<>>
    ELSE (IF Head(calls).call = "write_usize" THEN <<Head(calls).arg>> ELSE <<>>)
         \o UsizeWrites(Tail(calls))

\* C19: version_hash respects version_cmp: strings that version_cmp finds
\* Equal feed the hasher the identical sequence of writes, and a separator
\* block is written, as its length, exactly when it is not the last block of
\* the input.
HashRespectsCmp ==
    Compared =>
        /\ cmp_raw = Some("Equal") => version_hash(left) = version_hash(right)
        /\ UsizeWrites(version_hash(left)) = InnerSeparators(Blocks(left), 1)
        /\ UsizeWrites(version_hash(right)) = InnerSeparators(Blocks(right), 1)

HashRespectsCmpWitness ==
    /\ Compared
    /\ cmp_raw = Some("Equal")
    /\ left = <<"-", "a", "-">>
    /\ right = <<"-", "a">>
    /\ version_hash(left) = <<[call |-> "write_usize", arg |-> 1],
                              [call |-> "write", arg |-> <<"a">>]>>

(***************************************************************************)
(* Properties of the lazy package cache                                    *)
(***************************************************************************)
\* the step is a lookup of key through LocalDatabase::package
LooksUp(key) ==
    /\ local_status = "populated"
    /\ local_result' # None
    /\ Unwrap(local_result').op = "package"
    /\ Unwrap(local_result').name = key[1]
    /\ Unwrap(local_result').version = key[2]
    /\ <<local_cache, local_result>> # <<local_cache', local_result'>>

\* what one step does to the cache entry of key
LazyStep(key) ==
    /\ key \in DOMAIN local_cache'
    /\ local_cache[key].loaded <=> local_cache[key].pkg # None
    \* a loaded entry stays the same loaded entry
    /\ local_cache[key].loaded => local_cache'[key] = local_cache[key]
    \* an entry becomes loaded only through a lookup that returns its package
    /\ (~local_cache[key].loaded /\ local_cache'[key].loaded) =>
          /\ LooksUp(key)
          /\ Unwrap(local_result').result = Ok(Unwrap(local_cache'[key].pkg))
    /\ LooksUp(key) =>
          \* a lookup returns: the package, or the error of the failed load
          /\ Unwrap(local_result').result.tag \in {"Ok", "Err"}
          /\ Unwrap(local_result').result.tag = "Err" => local_cache'[key] = local_cache[key]
          /\ Unwrap(local_result').result.tag = "Ok" => local_cache'[key].loaded
          /\ local_cache[key].loaded =>
                Unwrap(local_result').result = Ok(Unwrap(local_cache[key].pkg))

\* C20: every local cache entry is Unloaded or Loaded; the only transition
\* is Unloaded -> Loaded, taken by a lookup whose load succeeds; a lookup
\* whose load fails returns the error and leaves the entry Unloaded; a
\* Loaded entry answers every later lookup with the same package and never
\* goes back to Unloaded.
LazyCache == [][\A key \in DOMAIN local_cache : LazyStep(key)]_vars


(***************************************************************************)
(* Properties of scalar fields                                             *)
(***************************************************************************)
Deserialized(type) ==
    scalar_result # None /\ Unwrap(scalar_result).type = type

\* C21: deserializing a value block as an unsigned integer returns its
\* decimal value when the block is a non-empty string of ASCII digits and
\* the ExpectedUnsigned error otherwise; it never panics.
UnsignedTotal ==
    Deserialized("u") =>
        Unwrap(scalar_result).result =
            IF IsDigitRun(scalar_input)
            THEN Ok(<<DigitsValue(scalar_input)>>)
            ELSE Err("ExpectedUnsigned")

\* C22: deserializing a value block as bool returns true for the block
\* "true", false for the block "false" and ExpectedBool for every other
\* block, blocks that only start with one of the two literals included.
BoolExact ==
    Deserialized("bool") =>
        Unwrap(scalar_result).result =
            IF scalar_input = <<"t", "r", "u", "e">> THEN Ok(<<TRUE>>)
            ELSE IF scalar_input = <<"f", "a", "l", "s", "e">> THEN Ok(<<FALSE>>)
            ELSE Err("ExpectedBool")

(***************************************************************************)
(* Properties of package_latest                                            *)
(***************************************************************************)
\* v is greatest among the versions under Ord for Version
GreatestVersion(v, versions) ==
    \A w \in versions :
        Version_cmp(Version_parse(w), Version_parse(v)) # "Greater"

\* C23: package_latest(name) answers with the cached package of name whose
\* version is greatest under the ordering of Version, and with an
\* invalid-package error when name is not cached.
LatestIsGreatest ==
    latest_result # None =>
        LET r == Unwrap(latest_result)
        IN  IF versions_of(latest_cache, r.name) = {}
            THEN r.result = invalid_local_package(r.name)
            ELSE /\ IsSome(r.version)
                 /\ GreatestVersion(Unwrap(r.version), versions_of(latest_cache, r.name))

Hyphens(s) == Cardinality({i \in 1..Len(s) : s[i] = "-"})

\* C25: split_package_dirname(s) is None iff s has fewer than two '-';
\* otherwise it is (name, version) with name ++ "-" ++ version = s and
\* exactly one '-' in version, so that name keeps any further hyphens.
DirnameSplit ==
    dirname_result # None =>
        LET split == Unwrap(dirname_result)
        IN  /\ split = None <=> Hyphens(dirname_input) < 2
            /\ split # None =>
                   /\ Unwrap(split).name \o <<"-">> \o Unwrap(split).version = dirname_input
                   /\ Hyphens(Unwrap(split).version) = 1

\* a name with three hyphens has been split and its name part holds a hyphen
DirnameSplitWitness ==
    /\ dirname_input = <<"a", "-", "a", "-", "1", "-", "1">>
    /\ dirname_result = Some(Some([name |-> <<"a", "-", "a">>,
                                   version |-> <<"1", "-", "1">>]))

(***************************************************************************)
(* Properties of the comparator on three strings                           *)
(***************************************************************************)
TripleDone(op) == triple_result # None /\ Unwrap(triple_result).op = op

\* C26: version_cmp is transitive: if version_cmp(a, b) and version_cmp(b, c)
\* are not Greater then version_cmp(a, c) is not Greater; strings that
\* compare Equal compare alike against every third string.
CmpTransitive ==
    TripleDone("version_cmp") =>
        LET cmp == Unwrap(triple_result).of
        IN  /\ (cmp[<<1, 2>>] # "Greater" /\ cmp[<<2, 3>>] # "Greater")
                  => cmp[<<1, 3>>] # "Greater"
            /\ cmp[<<1, 2>>] = "Equal" => cmp[<<1, 3>>] = cmp[<<2, 3>>]

\* the string holds letters and digits only
Alphanumeric(s) == \A i \in 1..Len(s) : is_ascii_alphanumeric(s[i])

\* C26 as amended: version_cmp is transitive on strings of letters and
\* digits, and such strings that compare Equal compare alike against every
\* third one; a separator anywhere in one of the three strings can break
\* both.
CmpTransitiveAlphanumeric ==
    (TripleDone("version_cmp") /\ \A k \in 1..3 : Alphanumeric(triple[k])) =>
        LET cmp == Unwrap(triple_result).of
        IN  /\ (cmp[<<1, 2>>] # "Greater" /\ cmp[<<2, 3>>] # "Greater")
                  => cmp[<<1, 3>>] # "Greater"
            /\ cmp[<<1, 2>>] = "Equal" => cmp[<<1, 3>>] = cmp[<<2, 3>>]

\* "a", "01" and "1" have been compared: the first is Less than the second,
\* which is Equal to the third, and Less than the third
CmpTransitiveAlphanumericWitness ==
    /\ triple = <<<<"a">>, <<"0", "1">>, <<"1">>>>
    /\ TripleDone("version_cmp")
    /\ Unwrap(triple_result).of[<<1, 2>>] = "Less"
    /\ Unwrap(triple_result).of[<<2, 3>>] = "Equal"
    /\ Unwrap(triple_result).of[<<1, 3>>] = "Less"

(***************************************************************************)
(* Properties of Version equality on three versions                        *)
(***************************************************************************)
\* the release of the k-th version
ReleaseOf(k) == Version_parse(triple[k]).release

\* C27: Version equality is an equivalence relation: reflexive, symmetric
\* and transitive, also when some versions have a release and others none.
EqEquivalence ==
    TripleDone("eq") =>
        LET eq == Unwrap(triple_result).of
        IN  /\ \A i \in 1..3 : eq[<<i, i>>]
            /\ \A i, j \in 1..3 : eq[<<i, j>>] => eq[<<j, i>>]
            /\ (eq[<<1, 2>>] /\ eq[<<2, 3>>]) => eq[<<1, 3>>]

\* C27 as amended: Version equality is reflexive and symmetric, and a == b
\* and b == c imply a == c unless a and c both have a release and b has
\* none.
EqEquivalenceBarRelease ==
    TripleDone("eq") =>
        LET eq == Unwrap(triple_result).of
        IN  /\ \A i \in 1..3 : eq[<<i, i>>]
            /\ \A i, j \in 1..3 : eq[<<i, j>>] => eq[<<j, i>>]
            /\ (/\ eq[<<1, 2>>]
                /\ eq[<<2, 3>>]
                /\ (IsSome(ReleaseOf(2)) \/ ~IsSome(ReleaseOf(1)) \/ ~IsSome(ReleaseOf(3))))
                  => eq[<<1, 3>>]

\* "0:", "-1" and "" have been compared: a version with an epoch, one
\* with a release and one with neither, all equal to each other
EqEquivalenceBarReleaseWitness ==
    /\ triple = <<<<"0", ":">>, <<"-", "1">>, <<>>>>
    /\ TripleDone("eq")
    /\ \A p \in (1..3) \X (1..3) : Unwrap(triple_result).of[p]

(***************************************************************************)
(* Properties of the epoch of a parsed version                             *)
(***************************************************************************)
\* C28: the epoch of Version::parse(input) is a non-empty string of ASCII
\* digits for every input, those that begin with ':' included.
EpochIsNumber ==
    ppc = "parsed" =>
        LET epoch == Unwrap(pversion).epoch
        IN  /\ epoch # <<>>
            /\ \A i \in 1..Len(epoch) : is_ascii_digit(epoch[i])

(***************************************************************************)
(* Properties of add_server followed by remove_server                      *)
(***************************************************************************)
\* C29: add_server(u) followed by remove_server(u), for a valid url u that
\* is not yet a member, with or without a trailing slash on its path,
\* leaves the server set as it was before the two calls.
AddRemoveInverse ==
    (pair_call # None /\ Unwrap(pair_call).stage = "removed") =>
        pair_servers = Unwrap(pair_call).before

(***************************************************************************)
(* Properties of Alpm::sync_database                                       *)
(***************************************************************************)
\* the archive of the database is missing, or has a member that
\* populate_package_cache does not accept
BadArchive(name) == sync_populate_package_cache(reg_files[name]).result.tag # "Ok"

\* C30: sync_database(name) does not panic for a valid name that is not yet
\* registered, whatever the archive: it returns Err, or registers a database
\* whose cache is empty when the archive is missing or malformed and whose
\* status is Missing when the file is absent; a call for a registered name
\* returns the registered database and leaves the registry alone.
SyncDatabaseTotal ==
    (reg_call # None /\ SyncDbName_new(Unwrap(reg_call).name).tag = "Ok") =>
        LET c == Unwrap(reg_call)
        IN  /\ c.result.tag # "Panic"
            /\ c.result.tag = "Ok" =>
                  /\ c.name \in DOMAIN reg_databases
                  /\ BadArchive(c.name) => reg_databases[c.name].package_count = 0
                  /\ reg_files[c.name] = None =>
                        SyncDatabase_status(0, reg_files[c.name]) = Ok("Missing")
            /\ c.name \in DOMAIN c.before =>
                  (c.result = Ok(c.name) /\ reg_databases = c.before)

====
